---------------------------- MODULE Spec2Model ----------------------------
(***************************************************************************)
(* Entity resolution and merge pipeline of lightrag-cv (src/app/db_clean). *)
(*                                                                         *)
(*   - the duplicate groupers (cv1_merge_identify.identify_duplicates,     *)
(*     clean_merge_identify.identify_duplicates_by_normalization,          *)
(*     cigref1_merge_identify.identify_duplicates_for_canonical),          *)
(*   - the deletion utility (clean_list.delete_entity, delete_with_retry,  *)
(*     main),                                                              *)
(*   - the merge executor (cigref2_merge_entities.retry_with_backoff,      *)
(*     execute_merge_operations).                                          *)
(*                                                                         *)
(* Entity names are sequences of code points, so that str.lower(), the     *)
(* separator regex and Python's string ordering are computed, not assumed. *)
(* Only ASCII letters are case-mapped; the names used are ASCII.           *)
(***************************************************************************)
EXTENDS Integers, Sequences, FiniteSets, TLC

VARIABLES
    \* ---- duplicate groupers
    entities,          \* the rows of the graph store, as a fetch returns them
    grouper,           \* which grouper ran, with its arguments and its input
    merge_operations,  \* the list the grouper returned
    \* ---- deletion utility (clean_list.py)
    dpc,               \* position in main / delete_with_retry
    d_entities,        \* the entities loaded from the file
    d_dry_run,         \* --dry-run
    di,                \* main's loop index i (1-based)
    retry_count,       \* delete_with_retry's loop variable
    returned,          \* what delete_with_retry returned: (success, error_type)
    responses,         \* per entity, what delete_entity returned, request by request
    dsleeps,           \* per entity, the backoff sleeps taken (seconds)
    stats,             \* main's stats dictionary
    \* ---- merge executor (cigref2_merge_entities.py)
    mpc,               \* position in execute_merge_operations / retry_with_backoff
    operations,        \* the loaded plan
    dry_run,           \* --dry-run
    batch_size,        \* --batch-size
    retry_attempts,    \* --retry-attempts
    bi,                \* the outer loop's i (0-based start of the batch)
    opi,               \* 1-based index of the operation the inner loop is at
    attempt,           \* retry_with_backoff's loop variable
    delay,             \* retry_with_backoff's delay
    last_exception,    \* retry_with_backoff's last_exception
    result,            \* the result dictionary of the operation in progress
    results,           \* the report: total, successful, failed, details
    remote,            \* per operation, the remote calls issued for it
    sleeps,            \* per operation, the sleeps taken while processing it
    batches,           \* the batches logged so far
    verbose_api,       \* whether the remote API fills in message and data
    \* ---- entity extraction (clean_extract.py)
    xpc,               \* position in main / fetch_entities_by_regex
    name_pattern,      \* fetch_entities_by_regex's name_pattern
    type_pattern,      \* fetch_entities_by_regex's type_pattern
    store,             \* the rows of the graph store
    conn_log,          \* what was done on store connections, in order
    fetched,           \* how fetch_entities_by_regex ended
    \* ---- the plan file (save_merge_operations / load_merge_operations)
    plan_file,         \* the text of the plan file
    plan_source,       \* who wrote the plan file, and from what
    loaded,            \* how load_merge_operations ended
    \* ---- normalize_entity_name applied to names
    n_name,            \* a name
    n_other,           \* another name
    n_keys,            \* the keys computed from them
    \* ---- the readers of the graph store
    reader,            \* the reading function called, with its argument
    \* ---- execute_merge_operations run twice against the same remote API
    api_mode,          \* "off", or "record" in the first run, "replay" in the second
    api_log,           \* the calls of the first run with the replies to them
    api_calls,         \* the calls of the second run
    first_run          \* the batch size and the report of the first run

gvars == <<entities, grouper, merge_operations>>
dvars == <<dpc, d_entities, d_dry_run, di, retry_count, returned, responses, dsleeps, stats>>
mvars == <<mpc, operations, dry_run, batch_size, retry_attempts, bi, opi, attempt, delay,
           last_exception, result, results, remote, sleeps, batches, verbose_api>>
xvars == <<xpc, name_pattern, type_pattern, store, conn_log, fetched>>
fvars == <<plan_file, plan_source, loaded>>
nvars == <<n_name, n_other, n_keys>>
rvars == <<reader>>
bvars == <<api_mode, api_log, api_calls, first_run>>
ovars == <<xvars, fvars, nvars, rvars, bvars>>
vars == <<gvars, dvars, mvars, ovars>>

-----------------------------------------------------------------------------
(* Bounds of the model *)

MaxEntities == 4      \* longest fetched entity list
MaxDelete == 2        \* longest list of entities to delete
MaxOps == 2           \* longest merge plan
MaxBatch == 2         \* largest --batch-size tried
MaxNameLen == 3       \* longest name given to normalize_entity_name
MaxOtherLen == 2      \* longest name it is compared with

-----------------------------------------------------------------------------
(* Strings as sequences of code points *)

\* "CV_001", "Cv_001", "cv_001" and "AB"
CV_001 == <<67, 86, 95, 48, 48, 49>>
Cv_001 == <<67, 118, 95, 48, 48, 49>>
cv_001 == <<99, 118, 95, 48, 48, 49>>
AB == <<65, 66>>

Names == {CV_001, Cv_001, cv_001, AB}
Types == {"CV", "PROFILE"}
RelCounts == {1, 5}

\* str.lower() on one code point whose lowercase does not depend on its
\* neighbours: the ASCII letters; the Greek small sigmas are lowercase already
LowerChar(c) == IF c >= 65 /\ c <= 90 THEN c + 32 ELSE c

\* the code points of str.lower()'s Final_Sigma rule
CapitalSigma == 931
FinalSmallSigma == 962
SmallSigma == 963

\* cased and case-ignorable code points, among those below 128 and the sigmas
IsCased(c) == c \in (65..90) \cup (97..122) \cup {CapitalSigma, FinalSmallSigma, SmallSigma}
IsCaseIgnorable(c) == c \in {39, 46, 58, 94, 96}

\* str.lower() puts a capital sigma in final form when the nearest code point
\* before it that is not case-ignorable is cased and the nearest one after
\* it, if any, is not cased
InFinalSigmaContext(s, i) ==
    LET before == {j \in 1..(i - 1) : ~IsCaseIgnorable(s[j])}
        after == {j \in (i + 1)..Len(s) : ~IsCaseIgnorable(s[j])}
    IN /\ before # {}
       /\ IsCased(s[CHOOSE j \in before : \A k \in before : k <= j])
       /\ \/ after = {}
          \/ ~IsCased(s[CHOOSE j \in after : \A k \in after : j <= k])

\* str.lower()
Lower(s) ==
    [i \in 1..Len(s) |->
        IF s[i] = CapitalSigma
        THEN IF InFinalSigmaContext(s, i) THEN FinalSmallSigma ELSE SmallSigma
        ELSE LowerChar(s[i])]

\* the character class [_\s\-] of the normalizer's regex: underscore, hyphen
\* and whitespace (\s: space, \t \n \v \f \r and the separators 28..31)
IsSeparator(c) == c \in {95, 45, 32} \cup (9..13) \cup (28..31)

RECURSIVE RemoveSeparators(_)
RemoveSeparators(s) ==
    IF s = <<>> THEN <<>>
    ELSE IF IsSeparator(Head(s)) THEN RemoveSeparators(Tail(s))
    ELSE <<Head(s)>> \o RemoveSeparators(Tail(s))

\* normalize_entity_name: lowercase, then delete every run of separators
normalize_entity_name(entity_name) == RemoveSeparators(Lower(entity_name))

\* Python's < on str: lexicographic by code point, a proper prefix is smaller
RECURSIVE StrLess(_, _)
StrLess(a, b) ==
    IF b = <<>> THEN FALSE
    ELSE IF a = <<>> THEN TRUE
    ELSE IF Head(a) # Head(b) THEN Head(a) < Head(b)
    ELSE StrLess(Tail(a), Tail(b))

-----------------------------------------------------------------------------
(* Sorting as sorted(entity_list, key=(relationship_count, entity_name),     *)
(* reverse=True) does it                                                     *)

\* the sort key tuple (relationship_count, entity_name), compared as tuples
KeyLess(x, y) ==
    \/ x.relationship_count < y.relationship_count
    \/ /\ x.relationship_count = y.relationship_count
       /\ StrLess(x.entity_name, y.entity_name)

\* reverse=True: x comes before y when key(x) > key(y)
SortBefore(x, y) == KeyLess(y, x)

\* insert e behind every element that does not come after it: the sort is
\* stable, also with reverse=True
RECURSIVE InsertSorted(_, _)
InsertSorted(e, s) ==
    IF s = <<>> THEN <<e>>
    ELSE IF SortBefore(e, Head(s)) THEN <<e>> \o s
    ELSE <<Head(s)>> \o InsertSorted(e, Tail(s))

RECURSIVE SortedEntities(_)
SortedEntities(s) ==
    IF s = <<>> THEN <<>>
    ELSE InsertSorted(s[Len(s)], SortedEntities(SubSeq(s, 1, Len(s) - 1)))

-----------------------------------------------------------------------------
(* Helpers for Python lists and dicts *)

RECURSIVE SelectSeq2(_, _)
\* [x for x in s if Keep(x)]; Keep is a set of kept values
SelectSeq2(s, keep) ==
    IF s = <<>> THEN <<>>
    ELSE IF Head(s) \in keep THEN <<Head(s)>> \o SelectSeq2(Tail(s), keep)
    ELSE SelectSeq2(Tail(s), keep)

Range(s) == {s[i] : i \in 1..Len(s)}

\* the keys of a dict filled in the order of s, in insertion order
RECURSIVE KeysInOrder(_)
KeysInOrder(s) ==
    IF s = <<>> THEN <<>>
    ELSE LET rest == KeysInOrder(SubSeq(s, 1, Len(s) - 1))
             k == s[Len(s)]
         IN IF k \in Range(rest) THEN rest ELSE Append(rest, k)

\* {e["entity_name"]: e["relationship_count"] for e in sorted_entities}:
\* keys in first-insertion order, the value written last wins
RelationshipCounts(sorted) ==
    LET names == KeysInOrder([i \in 1..Len(sorted) |-> sorted[i].entity_name])
        last(n) == CHOOSE i \in 1..Len(sorted) :
                      /\ sorted[i].entity_name = n
                      /\ \A j \in (i + 1)..Len(sorted) : sorted[j].entity_name # n
    IN [k \in 1..Len(names) |->
           [name |-> names[k], count |-> sorted[last(names[k])].relationship_count]]

\* the names of a list of entities, in order
EntityNames(s) == [i \in 1..Len(s) |-> s[i].entity_name]

\* the members of s whose grouping key is k, in the order of s; keys[i] is
\* the grouping key of s[i]
RECURSIVE GroupOf(_, _, _)
GroupOf(s, keys, k) ==
    IF s = <<>> THEN <<>>
    ELSE IF Head(keys) = k THEN <<Head(s)>> \o GroupOf(Tail(s), Tail(keys), k)
    ELSE GroupOf(Tail(s), Tail(keys), k)

\* groups.items() of a defaultdict(list) filled in the order of s: the groups
\* in the order their keys were first inserted
Groups(s, keys) ==
    LET order == KeysInOrder(keys)
    IN [g \in 1..Len(order) |-> [key |-> order[g], entity_list |-> GroupOf(s, keys, order[g])]]

\* concatenation of the operations the groups produce (<<>> for none)
RECURSIVE Flatten(_)
Flatten(ss) == IF ss = <<>> THEN <<>> ELSE Head(ss) \o Flatten(Tail(ss))

\* a grouper that takes every group for a group of duplicates
HasDuplicates_Any(entity_list) == Len(entity_list) > 0

\* len(entity_list) > 1: the only groups a grouper makes an operation of
HasDuplicates(entity_list) == Len(entity_list) > 1

-----------------------------------------------------------------------------
(* cv1_merge_identify.identify_duplicates *)

\* one merge operation of identify_duplicates, from a group's entity_list
DuplicatesOperation(entity_list) ==
    LET sorted_entities == SortedEntities(entity_list)
    IN [entity_to_change_into |-> sorted_entities[1].entity_name,
        entities_to_change |-> EntityNames(Tail(sorted_entities)),
        relationship_counts |-> RelationshipCounts(sorted_entities)]

identify_duplicates(ents) ==
    LET groups == Groups(ents, [i \in 1..Len(ents) |-> Lower(ents[i].entity_name)])
    IN Flatten([g \in 1..Len(groups) |->
           IF HasDuplicates(groups[g].entity_list)
           THEN <<DuplicatesOperation(groups[g].entity_list)>>
           ELSE <<>>])

-----------------------------------------------------------------------------
(* clean_merge_identify.identify_duplicates_by_normalization *)

\* [e for e in s if e["entity_type"] in target_entity_types]
RECURSIVE OfTypes(_, _)
OfTypes(s, types) ==
    IF s = <<>> THEN <<>>
    ELSE IF Head(s).entity_type \in types THEN <<Head(s)>> \o OfTypes(Tail(s), types)
    ELSE OfTypes(Tail(s), types)

\* [e["entity_name"] for e in s if e["entity_name"] != canonical_entity]
RECURSIVE NamesExcept(_, _)
NamesExcept(s, canonical_entity) ==
    IF s = <<>> THEN <<>>
    ELSE IF Head(s).entity_name # canonical_entity
         THEN <<Head(s).entity_name>> \o NamesExcept(Tail(s), canonical_entity)
    ELSE NamesExcept(Tail(s), canonical_entity)

\* the operation of one group in cross-type mode; target_entity_types is
\* <<>> for None (the code only tests its truthiness)
CrossTypeOperation(normalized_name, entity_list, target_entity_types) ==
    LET sorted_by_relationships == SortedEntities(entity_list)
        canonical_entity == sorted_by_relationships[1].entity_name
        target_entities == OfTypes(sorted_by_relationships, Range(target_entity_types))
        canonical_type ==
            IF target_entity_types # <<>> /\ target_entities # <<>>
            THEN target_entities[1].entity_type
            ELSE sorted_by_relationships[1].entity_type
    IN [entity_to_change_into |-> canonical_entity,
        entities_to_change |-> NamesExcept(sorted_by_relationships, canonical_entity),
        relationship_counts |-> RelationshipCounts(sorted_by_relationships),
        entity_type |-> canonical_type,
        entity_types_involved |->
            {sorted_by_relationships[i].entity_type : i \in 1..Len(sorted_by_relationships)},
        normalized_name |-> normalized_name]

\* the operation of one (normalized_name, entity_type) group in same-type mode
SameTypeOperation(normalized_name, entity_type, entity_list) ==
    LET sorted_entities == SortedEntities(entity_list)
    IN [entity_to_change_into |-> sorted_entities[1].entity_name,
        entities_to_change |-> EntityNames(Tail(sorted_entities)),
        relationship_counts |-> RelationshipCounts(sorted_entities),
        entity_type |-> entity_type,
        normalized_name |-> normalized_name]

identify_duplicates_by_normalization(ents, merge_across_types, target_entity_types) ==
    IF merge_across_types
    THEN LET groups == Groups(ents,
                 [i \in 1..Len(ents) |-> normalize_entity_name(ents[i].entity_name)])
         IN Flatten([g \in 1..Len(groups) |->
                IF HasDuplicates(groups[g].entity_list)
                THEN <<CrossTypeOperation(groups[g].key, groups[g].entity_list,
                                          target_entity_types)>>
                ELSE <<>>])
    ELSE LET groups_by_type == Groups(ents,
                 [i \in 1..Len(ents) |->
                     <<normalize_entity_name(ents[i].entity_name), ents[i].entity_type>>])
         IN Flatten([g \in 1..Len(groups_by_type) |->
                IF HasDuplicates(groups_by_type[g].entity_list)
                THEN <<SameTypeOperation(groups_by_type[g].key[1], groups_by_type[g].key[2],
                                         groups_by_type[g].entity_list)>>
                ELSE <<>>])

-----------------------------------------------------------------------------
(* cigref1_merge_identify: the whitelist-driven grouper *)

\* d[k] = v on a dict modelled as a function
DictSet(d, k, v) == [x \in (DOMAIN d) \cup {k} |-> IF x = k THEN v ELSE d[x]]

EmptyDict == [x \in {} |-> <<>>]

IsWhitespace(c) == c = 32 \/ c \in 9..13 \/ c \in 28..31

\* str.strip()
RECURSIVE StripLeft(_)
StripLeft(s) ==
    IF s # <<>> /\ IsWhitespace(Head(s)) THEN StripLeft(Tail(s)) ELSE s

RECURSIVE StripRight(_)
StripRight(s) ==
    IF s # <<>> /\ IsWhitespace(s[Len(s)]) THEN StripRight(SubSeq(s, 1, Len(s) - 1)) ELSE s

Strip(s) == StripRight(StripLeft(s))

\* the inner loop of extract_canonical_entities over a domain's chunks;
\* maps is [names, types], profiles the chunks' job_profile values
RECURSIVE ExtractProfiles(_, _)
ExtractProfiles(maps, profiles) ==
    IF profiles = <<>> THEN maps
    ELSE LET profile_name == Strip(Head(profiles))
             normalized == normalize_entity_name(profile_name)
         IN IF profile_name # <<>>
            THEN ExtractProfiles([names |-> DictSet(maps.names, normalized, profile_name),
                                  types |-> DictSet(maps.types, normalized, "PROFILE")],
                                 Tail(profiles))
            ELSE ExtractProfiles(maps, Tail(profiles))

\* the outer loop of extract_canonical_entities over parsed_data["domains"]
RECURSIVE ExtractDomains(_, _)
ExtractDomains(maps, domains) ==
    IF domains = <<>> THEN maps
    ELSE LET domain_name == Head(domains).domain_name
             normalized == normalize_entity_name(domain_name)
             withDomain == [names |-> DictSet(maps.names, normalized, domain_name),
                            types |-> DictSet(maps.types, normalized, "DOMAIN_PROFILE")]
         IN ExtractDomains(ExtractProfiles(withDomain, Head(domains).profiles), Tail(domains))

\* extract_canonical_entities: (canonical_entities, entity_types)
extract_canonical_entities(domains) ==
    ExtractDomains([names |-> EmptyDict, types |-> EmptyDict], domains)

\* the client-side filter of fetch_entities_by_normalized_names over the rows
RECURSIVE MatchingEntities(_, _)
MatchingEntities(rows, normalized_set) ==
    IF rows = <<>> THEN <<>>
    ELSE LET normalized == normalize_entity_name(Head(rows).entity_name)
         IN IF normalized \in normalized_set
            THEN <<[entity_name |-> Head(rows).entity_name,
                    entity_type |-> Head(rows).entity_type,
                    relationship_count |-> Head(rows).relationship_count,
                    normalized_name |-> normalized]>>
                 \o MatchingEntities(Tail(rows), normalized_set)
            ELSE MatchingEntities(Tail(rows), normalized_set)

fetch_entities_by_normalized_names(rows, normalized_names) ==
    IF normalized_names = {} THEN <<>> ELSE MatchingEntities(rows, normalized_names)

\* an operation that reports the survivor's own type, not the canonical one
CanonicalOperation_SurvivorType(canonical_name, canonical_type, entity_list) ==
    LET sorted_entities == SortedEntities(entity_list)
    IN [entity_to_change_into |-> sorted_entities[1].entity_name,
        entities_to_change |-> EntityNames(Tail(sorted_entities)),
        entity_type |-> sorted_entities[1].entity_type,
        relationship_counts |-> RelationshipCounts(sorted_entities),
        normalized_name |-> canonical_name]

\* the operation of one group of identify_duplicates_for_canonical
CanonicalOperation(canonical_name, canonical_type, entity_list) ==
    LET sorted_entities == SortedEntities(entity_list)
    IN [entity_to_change_into |-> sorted_entities[1].entity_name,
        entities_to_change |-> EntityNames(Tail(sorted_entities)),
        entity_type |-> canonical_type,
        relationship_counts |-> RelationshipCounts(sorted_entities),
        normalized_name |-> canonical_name]

identify_duplicates_for_canonical(ents, canonical_entities, canonical_entity_types) ==
    LET groups == Groups(ents, [i \in 1..Len(ents) |-> ents[i].normalized_name])
    IN Flatten([g \in 1..Len(groups) |->
           IF /\ groups[g].key \in DOMAIN canonical_entities
              /\ groups[g].key \in DOMAIN canonical_entity_types
              /\ canonical_entities[groups[g].key] # <<>>
              /\ canonical_entity_types[groups[g].key] # ""
              /\ HasDuplicates(groups[g].entity_list)
           THEN <<CanonicalOperation(canonical_entities[groups[g].key],
                                     canonical_entity_types[groups[g].key],
                                     groups[g].entity_list)>>
           ELSE <<>>])

\* the canonical source documents tried: "CV 001" as a domain, and the domain
\* "A B" with the job profile " CV 001 "
CV_SP_001 == <<67, 86, 32, 48, 48, 49>>
KEY_cv001 == <<99, 118, 48, 48, 49>>
A_SP_B == <<65, 32, 66>>
CanonicalSources ==
    { <<[domain_name |-> CV_SP_001, profiles |-> <<>>]>>,
      <<[domain_name |-> A_SP_B, profiles |-> << <<32>> \o CV_SP_001 \o <<32>> >>]>> }

\* the preferred-type lists tried (<<>> is None)
TargetTypeLists == { <<>>, <<"CV">>, <<"PROFILE", "CV">> }

-----------------------------------------------------------------------------
(* The parts of the state a specification does not use *)

GroupersIdle ==
    /\ entities = <<>>
    /\ grouper = [fn |-> "none"]
    /\ merge_operations = <<>>

DeletionIdle ==
    /\ dpc = "idle"
    /\ d_entities = <<>>
    /\ d_dry_run = FALSE
    /\ di = 0
    /\ retry_count = 0
    /\ returned = <<>>
    /\ responses = <<>>
    /\ dsleeps = <<>>
    /\ stats = [total |-> 0]

ExecutorIdle ==
    /\ mpc = "idle"
    /\ operations = <<>>
    /\ dry_run = FALSE
    /\ batch_size = 1
    /\ retry_attempts = 0
    /\ bi = 0
    /\ opi = 0
    /\ attempt = 0
    /\ delay = 0
    /\ last_exception = [type |-> "None", status |-> 0]
    /\ result = [status |-> "None"]
    /\ results = [total |-> 0]
    /\ remote = <<>>
    /\ sleeps = <<>>
    /\ batches = <<>>
    /\ verbose_api = FALSE

ExtractIdle ==
    /\ xpc = "idle"
    /\ name_pattern = [some |-> FALSE, v |-> <<>>]
    /\ type_pattern = [some |-> FALSE, v |-> <<>>]
    /\ store = <<>>
    /\ conn_log = <<>>
    /\ fetched = [kind |-> "none"]

PlanFileIdle ==
    /\ plan_file = [exists |-> FALSE, text |-> <<>>]
    /\ plan_source = [by |-> "none"]
    /\ loaded = [kind |-> "none"]

NoKeys == [step |-> 0, name |-> <<>>, other |-> <<>>, again |-> <<>>]

NormalizeIdle ==
    /\ n_name = <<>>
    /\ n_other = <<>>
    /\ n_keys = NoKeys

ReaderIdle == reader = [fn |-> "none"]

ReplayIdle ==
    /\ api_mode = "off"
    /\ api_log = <<>>
    /\ api_calls = <<>>
    /\ first_run = [done |-> FALSE]

OthersIdle == ExtractIdle /\ PlanFileIdle /\ NormalizeIdle /\ ReaderIdle /\ ReplayIdle

-----------------------------------------------------------------------------
(* The groupers as a state machine: rows are fetched, then one grouper runs *)

\* the rows tried: every name under every type; the CV names with 1 or 5
\* relationships, AB with 1
Entities ==
    {e \in [entity_name : Names, entity_type : Types, relationship_count : RelCounts] :
        e.entity_name = AB => e.relationship_count = 1}

\* the fetch queries GROUP BY entity_name, entity_type: a (name, type) pair
\* is one row; the row order is the store's collation, left open here
FetchRow(e) ==
    /\ grouper.fn = "none"
    /\ Len(entities) < MaxEntities
    /\ \A i \in 1..Len(entities) :
          ~(entities[i].entity_name = e.entity_name /\ entities[i].entity_type = e.entity_type)
    /\ entities' = Append(entities, e)
    /\ UNCHANGED <<grouper, merge_operations, dvars, mvars, ovars>>

\* fetch_cv_entities groups by entity_name alone and returns no type
NamesDistinct(s) ==
    \A i, j \in 1..Len(s) : i # j => s[i].entity_name # s[j].entity_name

RunIdentifyDuplicates ==
    /\ grouper.fn = "none"
    /\ NamesDistinct(entities)
    /\ LET input == [i \in 1..Len(entities) |->
                        [entity_name |-> entities[i].entity_name,
                         relationship_count |-> entities[i].relationship_count]]
       IN /\ grouper' = [fn |-> "identify_duplicates", input |-> input]
          /\ merge_operations' = identify_duplicates(input)
    /\ UNCHANGED <<entities, dvars, mvars, ovars>>

RunIdentifyByNormalization(merge_across_types, target_entity_types) ==
    /\ grouper.fn = "none"
    /\ grouper' = [fn |-> "identify_duplicates_by_normalization",
                   input |-> entities,
                   merge_across_types |-> merge_across_types,
                   target_entity_types |-> target_entity_types]
    /\ merge_operations' =
           identify_duplicates_by_normalization(entities, merge_across_types,
                                                target_entity_types)
    /\ UNCHANGED <<entities, dvars, mvars, ovars>>

\* cigref1's main: extract the canonical maps, fetch the matching rows, group
RunIdentifyForCanonical(domains) ==
    /\ grouper.fn = "none"
    /\ LET maps == extract_canonical_entities(domains)
           input == fetch_entities_by_normalized_names(entities, DOMAIN maps.names)
       IN /\ grouper' = [fn |-> "identify_duplicates_for_canonical",
                         input |-> input,
                         canonical_entities |-> maps.names,
                         canonical_entity_types |-> maps.types]
          /\ merge_operations' =
                 identify_duplicates_for_canonical(input, maps.names, maps.types)
    /\ UNCHANGED <<entities, dvars, mvars, ovars>>

\* a dict without some keys
Without(d, keys) == [x \in (DOMAIN d) \ keys |-> d[x]]

\* identify_duplicates_for_canonical called with fetched entities of a key
\* that one of the two canonical maps does not hold
RunIdentifyForCanonicalWithout(domains, map) ==
    /\ grouper.fn = "none"
    /\ LET maps == extract_canonical_entities(domains)
           input == fetch_entities_by_normalized_names(entities, DOMAIN maps.names)
           canonical_entities ==
               IF map = "canonical_entities" THEN Without(maps.names, {KEY_cv001})
               ELSE maps.names
           canonical_entity_types ==
               IF map = "canonical_entity_types" THEN Without(maps.types, {KEY_cv001})
               ELSE maps.types
       IN /\ grouper' = [fn |-> "identify_duplicates_for_canonical",
                         input |-> input,
                         canonical_entities |-> canonical_entities,
                         canonical_entity_types |-> canonical_entity_types]
          /\ merge_operations' =
                 identify_duplicates_for_canonical(input, canonical_entities,
                                                   canonical_entity_types)
    /\ UNCHANGED <<entities, dvars, mvars, ovars>>

GroupInit ==
    /\ GroupersIdle
    /\ DeletionIdle
    /\ ExecutorIdle
    /\ OthersIdle

GroupNext ==
    \/ \E e \in Entities : FetchRow(e)
    \/ RunIdentifyDuplicates
    \/ \E t \in TargetTypeLists : RunIdentifyByNormalization(TRUE, t)
    \/ RunIdentifyByNormalization(FALSE, <<>>)
    \/ \E d \in CanonicalSources : RunIdentifyForCanonical(d)

SpecGroup == GroupInit /\ [][GroupNext]_vars

\* the whitelist-driven grouper alone, called by main and called with maps
\* of unequal key sets
CanonicalNext ==
    \/ \E e \in Entities : FetchRow(e)
    \/ \E d \in CanonicalSources : RunIdentifyForCanonical(d)
    \/ \E d \in CanonicalSources, map \in {"canonical_entities", "canonical_entity_types"} :
          RunIdentifyForCanonicalWithout(d, map)

SpecCanonical == GroupInit /\ [][CanonicalNext]_vars

-----------------------------------------------------------------------------
(* The deletion utility, clean_list.py *)

MaxRetries == 3    \* settings.MAX_RETRIES

\* what the remote API can do with one request: an HTTP status, or no response
Replies == {[kind |-> "response", status |-> 200],
            [kind |-> "response", status |-> 404],
            [kind |-> "response", status |-> 400],
            [kind |-> "response", status |-> 503],
            [kind |-> "HTTPError", status |-> 0]}

\* delete_entity: (success, error_type) from the reply to the DELETE request
delete_entity(reply) ==
    IF reply.kind = "HTTPError" THEN <<FALSE, "network_error">>
    ELSE IF reply.status = 200 THEN <<TRUE, "success">>
    ELSE IF reply.status = 404 THEN <<FALSE, "not_found">>
    ELSE IF 400 <= reply.status /\ reply.status < 500 THEN <<FALSE, "client_error">>
    ELSE <<FALSE, "server_error">>

\* a delete_with_retry that treats a 404 like a server error
ReturnsAtOnce_Retry404(r) == r[1] \/ r[2] = "client_error"

\* delete_with_retry's two early returns
ReturnsAtOnce(r) == r[1] \/ r[2] = "not_found" \/ r[2] = "client_error"

\* backoff_seconds = 2 ** retry_count
RECURSIVE Pow(_, _)
Pow(b, n) == IF n = 0 THEN 1 ELSE b * Pow(b, n - 1)

backoff_seconds(rc) == Pow(2, rc)

\* a delete_with_retry that gives up one retry early
RetriesAgain_OneLess(rc, max_retries) == rc < max_retries - 1

\* whether delete_with_retry sleeps and goes round again after a retryable error
RetriesAgain(rc, max_retries) == rc < max_retries

\* an accounting that counts a network error as failed without its class
Account_NetworkUnclassified(st, r) ==
    IF r[1] THEN [st EXCEPT !.deleted = @ + 1]
    ELSE IF r[2] = "not_found" THEN [st EXCEPT !.not_found = @ + 1]
    ELSE IF r[2] = "client_error"
         THEN [st EXCEPT !.failed = @ + 1, !.client_errors = @ + 1]
    ELSE IF r[2] = "server_error"
         THEN [st EXCEPT !.failed = @ + 1, !.server_errors = @ + 1]
    ELSE [st EXCEPT !.failed = @ + 1]

\* main's accounting of one return value of delete_with_retry
Account(st, r) ==
    IF r[1] THEN [st EXCEPT !.deleted = @ + 1]
    ELSE IF r[2] = "not_found" THEN [st EXCEPT !.not_found = @ + 1]
    ELSE IF r[2] = "client_error"
         THEN [st EXCEPT !.failed = @ + 1, !.client_errors = @ + 1]
    ELSE IF r[2] = "server_error"
         THEN [st EXCEPT !.failed = @ + 1, !.server_errors = @ + 1]
    ELSE IF r[2] = "network_error"
         THEN [st EXCEPT !.failed = @ + 1, !.network_errors = @ + 1]
    ELSE [st EXCEPT !.failed = @ + 1]

\* the entity names of the input file: the first n of CV_001, AB, cv_001, ...
FileNames == <<CV_001, AB, cv_001, Cv_001>>
DeleteFile(n) == [i \in 1..n |-> [entity_name |-> FileNames[((i - 1) % Len(FileNames)) + 1]]]

\* main up to the deletion loop: the empty file and --dry-run return early
main_start ==
    /\ dpc = "start"
    /\ IF Len(d_entities) = 0 \/ d_dry_run
       THEN /\ dpc' = "done"
            /\ UNCHANGED <<di, stats, responses, dsleeps>>
       ELSE /\ dpc' = "request"
            /\ di' = 1
            /\ stats' = [total |-> Len(d_entities), deleted |-> 0, not_found |-> 0,
                         failed |-> 0, client_errors |-> 0, server_errors |-> 0,
                         network_errors |-> 0]
            /\ responses' = [i \in 1..Len(d_entities) |-> <<>>]
            /\ dsleeps' = [i \in 1..Len(d_entities) |-> <<>>]
    /\ UNCHANGED <<d_entities, d_dry_run, retry_count, returned, gvars, mvars, ovars>>

\* one iteration of delete_with_retry's loop: the request, the early returns,
\* the backoff sleep, and the return after the last iteration
delete_with_retry_step(reply) ==
    /\ dpc = "request"
    /\ retry_count <= MaxRetries
    /\ LET r == delete_entity(reply)
       IN /\ responses' = [responses EXCEPT ![di] = Append(@, r[2])]
          /\ IF ReturnsAtOnce(r)
             THEN /\ returned' = r
                  /\ dpc' = "returned"
                  /\ UNCHANGED <<retry_count, dsleeps>>
             ELSE IF RetriesAgain(retry_count, MaxRetries)
             THEN /\ dsleeps' = [dsleeps EXCEPT ![di] = Append(@, backoff_seconds(retry_count))]
                  /\ retry_count' = retry_count + 1
                  /\ UNCHANGED <<returned, dpc>>
             ELSE /\ returned' = <<FALSE, r[2]>>
                  /\ dpc' = "returned"
                  /\ UNCHANGED <<retry_count, dsleeps>>
    /\ UNCHANGED <<d_entities, d_dry_run, di, stats, gvars, mvars, ovars>>

\* the body of main's loop after delete_with_retry returned
main_account ==
    /\ dpc = "returned"
    /\ stats' = Account(stats, returned)
    /\ IF di < Len(d_entities)
       THEN /\ di' = di + 1
            /\ retry_count' = 0
            /\ dpc' = "request"
       ELSE /\ dpc' = "done"
            /\ UNCHANGED <<di, retry_count>>
    /\ UNCHANGED <<d_entities, d_dry_run, returned, responses, dsleeps, gvars, mvars, ovars>>

DeleteInit ==
    /\ GroupersIdle
    /\ ExecutorIdle
    /\ OthersIdle
    /\ dpc = "start"
    /\ d_entities \in {DeleteFile(n) : n \in 0..MaxDelete}
    /\ d_dry_run \in BOOLEAN
    /\ di = 0
    /\ retry_count = 0
    /\ returned = <<>>
    /\ responses = <<>>
    /\ dsleeps = <<>>
    /\ stats = [total |-> 0]

DeleteNext ==
    \/ main_start
    \/ \E reply \in Replies : delete_with_retry_step(reply)
    \/ main_account

SpecDelete == DeleteInit /\ [][DeleteNext]_vars

-----------------------------------------------------------------------------
(* The merge executor, cigref2_merge_entities.py *)

DefaultRetryAttempts == 3   \* --retry-attempts default
InitialDelay == 10          \* initial_delay = 1.0 s, in tenths of a second
BackoffFactor == 2          \* backoff_factor = 2.0
InterOperationDelay == 5    \* asyncio.sleep(0.5), in tenths of a second

\* Python's None, and a value that is present
NoneValue == [some |-> FALSE, v |-> <<>>]
Some(x) == [some |-> TRUE, v |-> x]

\* op.get(field) and op.get(field, default) on an operation of the plan
Get(op, field) == IF field \in DOMAIN op THEN Some(op[field]) ELSE NoneValue
GetOr(op, field, default) == IF field \in DOMAIN op THEN op[field] ELSE default

\* bool(x) of an optional string: None and "" are falsy
Truthy(x) == x.some /\ x.v # <<>>

\* a message: a text with the status code formatted into it (0 for none)
Msg(text, status) == [prefix |-> "", text |-> text, status |-> status]

\* f"Update failed: {update_error}"
UpdateFailed(e_str) == [e_str EXCEPT !.prefix = "Update failed: "]

\* the exception a remote call raises for a reply that is not a 200
RaisedFor(reply) ==
    IF reply.kind = "response"
    THEN [type |-> "ClientError", status |-> reply.status]
    ELSE [type |-> "ClientConnectorError", status |-> 0]

NoException == [type |-> "None", status |-> 0]

\* str(e)
StrOf(e) ==
    IF e.type = "ClientError" THEN Msg("API returned status", e.status)
    ELSE IF e.type = "RuntimeError" THEN Msg("Retry failed without exception", 0)
    ELSE Msg("Cannot connect to host", 0)

\* the replies of the remote API to a merge or edit call
ApiReplies == {[kind |-> "response", status |-> 200],
               [kind |-> "response", status |-> 404],
               [kind |-> "response", status |-> 500],
               [kind |-> "ClientConnectorError", status |-> 0]}

\* LightRAGClient.merge_entities / edit_entity: return the body on a 200
Returns(reply) == reply.kind = "response" /\ reply.status = 200

\* the JSON body of a 200 from the merge endpoint: an object, with or without
\* its "message" and its "data" object holding "relationships_transferred"
MergeResponse(verbose) ==
    IF verbose
    THEN [message |-> Some(Msg("Entities merged", 0)), relationships_transferred |-> Some(2)]
    ELSE [message |-> NoneValue, relationships_transferred |-> NoneValue]

\* the JSON body of a 200 from the edit endpoint
EditResponse(verbose) ==
    IF verbose THEN [message |-> Some(Msg("Entity updated", 0))]
    ELSE [message |-> NoneValue]

\* response.get(key, default) on a body
OrDefault(x, default) == IF x.some THEN x.v ELSE default

\* the plans: the operations a loaded file may hold
PlanOperations ==
    { \* the survivor is to be renamed to its normalized key
      [entity_to_change_into |-> CV_001, entities_to_change |-> <<cv_001, Cv_001>>,
       relationship_counts |-> <<[name |-> CV_001, count |-> 5]>>,
       entity_type |-> "CV", normalized_name |-> KEY_cv001],
      \* normalized_name is the survivor's own name, under another type
      [entity_to_change_into |-> CV_SP_001, entities_to_change |-> <<CV_001>>,
       relationship_counts |-> <<[name |-> CV_SP_001, count |-> 5]>>,
       entity_type |-> "PROFILE", normalized_name |-> CV_SP_001],
      \* an operation of identify_duplicates: no type, no normalized_name
      [entity_to_change_into |-> AB, entities_to_change |-> <<A_SP_B>>,
       relationship_counts |-> <<[name |-> AB, count |-> 1]>>],
      \* an empty normalized_name
      [entity_to_change_into |-> A_SP_B, entities_to_change |-> <<AB>>,
       relationship_counts |-> <<[name |-> A_SP_B, count |-> 1]>>,
       entity_type |-> "PROFILE", normalized_name |-> <<>>] }

RECURSIVE Plans(_)
Plans(n) ==
    IF n = 0 THEN {<<>>}
    ELSE Plans(n - 1) \cup {Append(p, o) : p \in {q \in Plans(n - 1) : Len(q) = n - 1},
                                           o \in PlanOperations}

RetryAttemptChoices == {0, 1, DefaultRetryAttempts}

\* the --retry-attempts of the runs that are repeated with another batch size
BatchRetryAttempts == 2

\* the calls issued for one operation
NoCalls ==
    [merge_calls |-> 0, merge_failures |-> 0, merge_last |-> NoException, merge_args |-> {},
     edit_calls |-> 0, edit_failures |-> 0, edit_last |-> NoException, edit_args |-> {}]

\* the result dictionary an iteration starts with
NewResult(op) ==
    [entity_to_change_into |-> op.entity_to_change_into,
     entities_to_change |-> op.entities_to_change,
     entity_type |-> GetOr(op, "entity_type", "UNKNOWN"),
     normalized_name |-> Get(op, "normalized_name"),
     status |-> "None",
     message |-> NoneValue,
     relationships_transferred |-> NoneValue,
     entity_updated |-> FALSE,
     update_message |-> NoneValue]

\* a rename condition that forgets to compare with the survivor's name
NeedsRename_AnyName(res) == Truthy(res.normalized_name)

\* the rename condition: normalized_name and normalized_name != entity_to_change_into
NeedsRename(res) ==
    Truthy(res.normalized_name) /\ res.normalized_name.v # res.entity_to_change_into

\* batches that hold one operation whatever the batch size
BatchEnd_One(i, size, n) == IF i + 1 < n THEN i + 1 ELSE n

\* the last index (1-based) of the batch that starts at i
BatchEnd(i, size, n) == IF i + size < n THEN i + size ELSE n

\* a retry_with_backoff that keeps the first exception
KeepException_First(old, e) == IF old # NoException THEN old ELSE e

\* last_exception = e
KeepException(old, e) == e

\* a retry_with_backoff that raises last_exception without looking at it
RaisedAfterLoop_Unguarded(last) == last

\* after the loop: raise last_exception, or the RuntimeError when there is none
RaisedAfterLoop(last) ==
    IF last # NoException THEN last ELSE [type |-> "RuntimeError", status |-> 0]

\* a retry_with_backoff that waits the same time before every retry
NextDelay_Constant(d) == d

\* delay *= backoff_factor
NextDelay(d) == d * BackoffFactor

\* whether retry_with_backoff sleeps and tries again after a failed attempt
TriesAgain(att, max_attempts) == att < max_attempts

\* the outer loop: the next batch, or the return
NextBatch ==
    /\ mpc = "batch"
    /\ IF bi < Len(operations)
       THEN /\ batches' = Append(batches,
                              [number |-> (bi \div batch_size) + 1,
                               size |-> BatchEnd(bi, batch_size, Len(operations)) - bi])
            /\ opi' = bi + 1
            /\ mpc' = "op"
       ELSE /\ mpc' = "done"
            /\ UNCHANGED <<batches, opi>>
    /\ UNCHANGED <<operations, dry_run, batch_size, retry_attempts, bi, attempt, delay,
                   last_exception, result, results, remote, sleeps, verbose_api,
                   gvars, dvars, ovars>>

\* an executor that builds its result in the operation itself (result = op)
PlanAfter_Annotated(ops, i, res) == [ops EXCEPT ![i] = res]

\* the plan after the result of its i-th operation has been recorded: the
\* result is a dictionary of its own, the operation is read and never written
PlanAfter(ops, i, res) == ops

\* an executor that lets the exception of a failed operation escape the loop
Complete_AbortOnFailure(res, successful, failed, slept) ==
    /\ UNCHANGED operations
    /\ result' = res
    /\ results' = [results EXCEPT !.details = Append(@, res),
                                  !.successful = successful,
                                  !.failed = failed]
    /\ sleeps' = [sleeps EXCEPT ![opi] = @ \o slept]
    /\ IF res.status = "failed"
       THEN /\ mpc' = "done"
            /\ UNCHANGED <<bi, opi>>
       ELSE IF opi < BatchEnd(bi, batch_size, Len(operations))
       THEN /\ opi' = opi + 1
            /\ mpc' = "op"
            /\ UNCHANGED bi
       ELSE /\ bi' = bi + batch_size
            /\ mpc' = "batch"
            /\ UNCHANGED opi

\* an executor that moves on without appending the result to the details
Complete_NotRecorded(res, successful, failed, slept) ==
    /\ UNCHANGED operations
    /\ result' = res
    /\ results' = [results EXCEPT !.successful = successful, !.failed = failed]
    /\ sleeps' = [sleeps EXCEPT ![opi] = @ \o slept]
    /\ IF opi < BatchEnd(bi, batch_size, Len(operations))
       THEN /\ opi' = opi + 1
            /\ mpc' = "op"
            /\ UNCHANGED bi
       ELSE /\ bi' = bi + batch_size
            /\ mpc' = "batch"
            /\ UNCHANGED opi

\* the end of an iteration of the inner loop: the result is appended to the
\* details, the sleeps of the iteration are taken, the loops move on
Complete(res, successful, failed, slept) ==
    /\ operations' = PlanAfter(operations, opi, res)
    /\ result' = res
    /\ results' = [results EXCEPT !.details = Append(@, res),
                                  !.successful = successful,
                                  !.failed = failed]
    /\ sleeps' = [sleeps EXCEPT ![opi] = @ \o slept]
    /\ IF opi < BatchEnd(bi, batch_size, Len(operations))
       THEN /\ opi' = opi + 1
            /\ mpc' = "op"
            /\ UNCHANGED bi
       ELSE /\ bi' = bi + batch_size
            /\ mpc' = "batch"
            /\ UNCHANGED opi

\* an executor whose dry-run branch is never taken
DryRunBranch_Never(flag) == FALSE

\* if dry_run:
DryRunBranch(flag) == flag

\* the head of an iteration: the result dictionary; in dry-run mode the whole
\* iteration, which ends with continue
BeginOperation ==
    /\ mpc = "op"
    /\ LET res == NewResult(operations[opi])
       IN IF DryRunBranch(dry_run)
          THEN /\ Complete([res EXCEPT !.status = "dry_run",
                                       !.message = Some(Msg("Dry run - not executed", 0))],
                           results.successful, results.failed, <<>>)
               /\ UNCHANGED <<attempt, delay, last_exception>>
          ELSE /\ result' = res
               /\ mpc' = "merge"
               /\ attempt' = 1
               /\ delay' = InitialDelay
               /\ last_exception' = NoException
               /\ UNCHANGED <<operations, results, sleeps, bi, opi>>
    /\ UNCHANGED <<dry_run, batch_size, retry_attempts, remote, batches,
                   verbose_api, gvars, dvars, ovars>>

\* an except branch that records a status of its own
Failed_Error(res, e) == [res EXCEPT !.status = "error", !.message = Some(StrOf(e))]

\* the except branch of the operation: status failed
Failed(res, e) == [res EXCEPT !.status = "failed", !.message = Some(StrOf(e))]

\* an inner except branch that also turns the verdict to failed
RenameFailed_Verdict(res, e) ==
    [res EXCEPT !.status = "failed",
                !.entity_updated = FALSE,
                !.update_message = Some(UpdateFailed(StrOf(e)))]

\* the inner except branch: the rename failed, the verdict stays
RenameFailed(res, e) ==
    [res EXCEPT !.entity_updated = FALSE,
                !.update_message = Some(UpdateFailed(StrOf(e)))]

\* the rename succeeded
Renamed(res, update_response) ==
    [res EXCEPT !.entity_updated = TRUE,
                !.update_message = Some(OrDefault(update_response.message, Msg("Updated", 0)))]

\* the merge succeeded: status success and the fields of the response
Merged(res, response) ==
    [res EXCEPT !.status = "success",
                !.message = Some(OrDefault(response.message, Msg("Success", 0))),
                !.relationships_transferred =
                    Some(OrDefault(response.relationships_transferred, 0))]

\* a call of the remote API and the reply to it. When the function is run a
\* second time against the same behaviour of the API, the calls of the first
\* run are kept with their replies, and the n-th call of the second run gets
\* the reply the n-th call of the first run got
RemoteCall(call, reply) ==
    CASE api_mode = "record" ->
            /\ api_log' = Append(api_log, [call |-> call, reply |-> reply])
            /\ UNCHANGED <<api_mode, api_calls, first_run>>
      [] api_mode = "replay" ->
            /\ Len(api_calls) < Len(api_log) => reply = api_log[Len(api_calls) + 1].reply
            /\ api_calls' = Append(api_calls, call)
            /\ UNCHANGED <<api_mode, api_log, first_run>>
      [] OTHER -> UNCHANGED bvars

\* one attempt of retry_with_backoff(client.merge_entities, ...), with what
\* execute_merge_operations does when it returns or raises
MergeAttempt(reply) ==
    /\ mpc = "merge"
    /\ attempt <= retry_attempts
    /\ RemoteCall([endpoint |-> "merge",
                   entities_to_change |-> result.entities_to_change,
                   entity_to_change_into |-> result.entity_to_change_into], reply)
    /\ remote' = [remote EXCEPT ![opi] =
           [@ EXCEPT !.merge_calls = @ + 1,
                     !.merge_failures = IF Returns(reply) THEN @ ELSE @ + 1,
                     !.merge_last = IF Returns(reply) THEN NoException ELSE RaisedFor(reply),
                     !.merge_args = @ \cup
                         {[entities_to_change |-> result.entities_to_change,
                           entity_to_change_into |-> result.entity_to_change_into]}]]
    /\ IF Returns(reply)
       THEN LET res == Merged(result, MergeResponse(verbose_api))
            IN IF NeedsRename(res)
               THEN /\ result' = res
                    /\ results' = [results EXCEPT !.successful = @ + 1]
                    /\ mpc' = "edit"
                    /\ attempt' = 1
                    /\ delay' = InitialDelay
                    /\ last_exception' = NoException
                    /\ UNCHANGED <<operations, sleeps, bi, opi>>
               ELSE /\ Complete(res, results.successful + 1, results.failed,
                                <<InterOperationDelay>>)
                    /\ UNCHANGED <<attempt, delay, last_exception>>
       ELSE LET e == KeepException(last_exception, RaisedFor(reply))
            IN IF TriesAgain(attempt, retry_attempts)
               THEN /\ last_exception' = e
                    /\ sleeps' = [sleeps EXCEPT ![opi] = Append(@, delay)]
                    /\ delay' = NextDelay(delay)
                    /\ attempt' = attempt + 1
                    /\ UNCHANGED <<operations, result, results, mpc, bi, opi>>
               ELSE /\ last_exception' = e
                    /\ Complete(Failed(result, RaisedAfterLoop(e)),
                                results.successful, results.failed + 1,
                                <<InterOperationDelay>>)
                    /\ UNCHANGED <<attempt, delay>>
    /\ UNCHANGED <<dry_run, batch_size, retry_attempts, batches, verbose_api,
                   gvars, dvars, xvars, fvars, nvars, rvars>>

\* retry_with_backoff with max_attempts < 1: the loop body never runs
MergeNotAttempted ==
    /\ mpc = "merge"
    /\ attempt > retry_attempts
    /\ Complete(Failed(result, RaisedAfterLoop(last_exception)),
                results.successful, results.failed + 1, <<InterOperationDelay>>)
    /\ UNCHANGED <<dry_run, batch_size, retry_attempts, attempt, delay,
                   last_exception, remote, batches, verbose_api, gvars, dvars, ovars>>

\* one attempt of retry_with_backoff(client.edit_entity, ...), with the inner
\* try/except around it
EditAttempt(reply) ==
    /\ mpc = "edit"
    /\ attempt <= retry_attempts
    /\ RemoteCall([endpoint |-> "edit",
                   entity_name |-> result.entity_to_change_into,
                   new_entity_name |-> result.normalized_name.v,
                   entity_type |-> result.entity_type], reply)
    /\ remote' = [remote EXCEPT ![opi] =
           [@ EXCEPT !.edit_calls = @ + 1,
                     !.edit_failures = IF Returns(reply) THEN @ ELSE @ + 1,
                     !.edit_last = IF Returns(reply) THEN NoException ELSE RaisedFor(reply),
                     !.edit_args = @ \cup
                         {[entity_name |-> result.entity_to_change_into,
                           new_entity_name |-> result.normalized_name.v,
                           entity_type |-> result.entity_type]}]]
    /\ IF Returns(reply)
       THEN /\ Complete(Renamed(result, EditResponse(verbose_api)),
                        results.successful, results.failed, <<InterOperationDelay>>)
            /\ UNCHANGED <<attempt, delay, last_exception>>
       ELSE LET e == KeepException(last_exception, RaisedFor(reply))
            IN IF TriesAgain(attempt, retry_attempts)
               THEN /\ last_exception' = e
                    /\ sleeps' = [sleeps EXCEPT ![opi] = Append(@, delay)]
                    /\ delay' = NextDelay(delay)
                    /\ attempt' = attempt + 1
                    /\ UNCHANGED <<operations, result, results, mpc, bi, opi>>
               ELSE /\ last_exception' = e
                    /\ Complete(RenameFailed(result, RaisedAfterLoop(e)),
                                results.successful, results.failed,
                                <<InterOperationDelay>>)
                    /\ UNCHANGED <<attempt, delay>>
    /\ UNCHANGED <<dry_run, batch_size, retry_attempts, batches, verbose_api,
                   gvars, dvars, xvars, fvars, nvars, rvars>>

ExecInit ==
    /\ GroupersIdle
    /\ DeletionIdle
    /\ OthersIdle
    /\ mpc = "batch"
    /\ operations \in Plans(MaxOps)
    /\ dry_run \in BOOLEAN
    /\ batch_size \in 1..MaxBatch
    /\ retry_attempts \in RetryAttemptChoices
    /\ verbose_api \in BOOLEAN
    /\ bi = 0
    /\ opi = 0
    /\ attempt = 0
    /\ delay = 0
    /\ last_exception = NoException
    /\ result = [status |-> "None"]
    /\ results = [total |-> Len(operations), successful |-> 0, failed |-> 0, details |-> <<>>]
    /\ remote = [i \in 1..Len(operations) |-> NoCalls]
    /\ sleeps = [i \in 1..Len(operations) |-> <<>>]
    /\ batches = <<>>

ExecNext ==
    \/ NextBatch
    \/ BeginOperation
    \/ \E reply \in ApiReplies : MergeAttempt(reply)
    \/ MergeNotAttempted
    \/ \E reply \in ApiReplies : EditAttempt(reply)

SpecExec == ExecInit /\ [][ExecNext]_vars

\* ---- execute_merge_operations run twice on one plan, with two batch sizes,
\* against one behaviour of the remote API

\* the operations of the plans run twice: one that is renamed after the
\* merge, one that is not
BatchOperations == {o \in PlanOperations : o.entity_to_change_into \in {CV_001, AB}}

RECURSIVE BatchPlans(_)
BatchPlans(n) ==
    IF n = 0 THEN {<<>>}
    ELSE BatchPlans(n - 1) \cup {Append(p, o) : p \in {q \in BatchPlans(n - 1) : Len(q) = n - 1},
                                                o \in BatchOperations}

\* the replies of the API in these runs
BatchReplies == {reply \in ApiReplies : reply.kind = "response" /\ reply.status \in {200, 500}}

\* the second call of execute_merge_operations, with the same operations,
\* retry_attempts and dry_run, and any batch size
Rerun(b2) ==
    /\ mpc = "done"
    /\ api_mode = "record"
    /\ api_mode' = "replay"
    /\ first_run' = [done |-> TRUE, batch_size |-> batch_size, results |-> results]
    /\ batch_size' = b2
    /\ mpc' = "batch"
    /\ bi' = 0
    /\ opi' = 0
    /\ attempt' = 0
    /\ delay' = 0
    /\ last_exception' = NoException
    /\ result' = [status |-> "None"]
    /\ results' = [total |-> Len(operations), successful |-> 0, failed |-> 0, details |-> <<>>]
    /\ remote' = [i \in 1..Len(operations) |-> NoCalls]
    /\ sleeps' = [i \in 1..Len(operations) |-> <<>>]
    /\ batches' = <<>>
    /\ UNCHANGED <<operations, dry_run, retry_attempts, verbose_api, api_log, api_calls,
                   gvars, dvars, xvars, fvars, nvars, rvars>>

BatchInit ==
    /\ GroupersIdle
    /\ DeletionIdle
    /\ ExtractIdle /\ PlanFileIdle /\ NormalizeIdle /\ ReaderIdle
    /\ api_mode = "record"
    /\ api_log = <<>>
    /\ api_calls = <<>>
    /\ first_run = [done |-> FALSE]
    /\ mpc = "batch"
    /\ operations \in BatchPlans(MaxOps)
    /\ dry_run \in BOOLEAN
    /\ batch_size \in 1..MaxBatch
    /\ retry_attempts = BatchRetryAttempts
    /\ verbose_api = FALSE
    /\ bi = 0
    /\ opi = 0
    /\ attempt = 0
    /\ delay = 0
    /\ last_exception = NoException
    /\ result = [status |-> "None"]
    /\ results = [total |-> Len(operations), successful |-> 0, failed |-> 0, details |-> <<>>]
    /\ remote = [i \in 1..Len(operations) |-> NoCalls]
    /\ sleeps = [i \in 1..Len(operations) |-> <<>>]
    /\ batches = <<>>

BatchNext ==
    \/ NextBatch
    \/ BeginOperation
    \/ \E reply \in BatchReplies : MergeAttempt(reply)
    \/ \E reply \in BatchReplies : EditAttempt(reply)
    \/ \E b2 \in 1..MaxBatch : Rerun(b2)

SpecBatch == BatchInit /\ [][BatchNext]_vars

-----------------------------------------------------------------------------
(* Entity extraction, clean_extract.py *)

\* the patterns tried: absent (None), the empty string, a regex
NamePatternCV == <<94, 67, 86>>       \* "^CV"
TypePatternP == <<94, 80>>            \* "^P"
NamePatterns == {NoneValue, Some(<<>>), Some(NamePatternCV)}
TypePatterns == {NoneValue, Some(<<>>), Some(TypePatternP)}

\* the text of an entity type
TypeText(entity_type) ==
    IF entity_type = "CV" THEN <<67, 86>> ELSE <<80, 82, 79, 70, 73, 76, 69>>

IsPrefix(p, s) == Len(p) <= Len(s) /\ SubSeq(s, 1, Len(p)) = p

\* the store's regex operator ~ for the patterns tried: a ^ anchors the
\* literal at the start, a bare literal may occur anywhere
RegexMatches(pattern, text) ==
    IF pattern # <<>> /\ Head(pattern) = 94
    THEN IsPrefix(Tail(pattern), text)
    ELSE \E i \in 0..Len(text) :
            i + Len(pattern) <= Len(text) /\ SubSeq(text, i + 1, i + Len(pattern)) = pattern

\* the contents of the graph store
StoreRows ==
    {[entity_name |-> CV_001, entity_type |-> "CV", relationship_count |-> 5],
     [entity_name |-> cv_001, entity_type |-> "PROFILE", relationship_count |-> 1],
     [entity_name |-> AB, entity_type |-> "PROFILE", relationship_count |-> 1]}

\* ORDER BY entity_type, entity_name
RowBefore(r, q) ==
    \/ StrLess(TypeText(r.entity_type), TypeText(q.entity_type))
    \/ r.entity_type = q.entity_type /\ StrLess(r.entity_name, q.entity_name)

RECURSIVE OrderedRows(_)
OrderedRows(rows) ==
    IF rows = {} THEN <<>>
    ELSE LET first == CHOOSE r \in rows : \A q \in rows \ {r} : RowBefore(r, q)
         IN <<first>> \o OrderedRows(rows \ {first})

\* the WHERE clause: a filter per truthy pattern, TRUE when there is none
WhereClause(row, name, type) ==
    /\ Truthy(name) => RegexMatches(name.v, row.entity_name)
    /\ Truthy(type) => RegexMatches(type.v, TypeText(row.entity_type))

\* if name_pattern is None and type_pattern is None
BothAbsent(name, type) == ~name.some /\ ~type.some

\* main: the argument check, then the call of fetch_entities_by_regex; the
\* summary and the output file follow the call and are not part of this state
extract_main(name, type) ==
    /\ xpc = "start"
    /\ IF ~Truthy(name) /\ ~Truthy(type)
       THEN /\ xpc' = "exit"
            /\ fetched' = [kind |-> "usage_error"]
            /\ UNCHANGED <<name_pattern, type_pattern>>
       ELSE /\ xpc' = "call"
            /\ name_pattern' = name
            /\ type_pattern' = type
            /\ UNCHANGED fetched
    /\ UNCHANGED <<store, conn_log, gvars, dvars, mvars, fvars, nvars, rvars, bvars>>

\* fetch_entities_by_regex called by other code, with any of its arguments
fetch_entities_by_regex_called(name, type) ==
    /\ xpc = "start"
    /\ xpc' = "call"
    /\ name_pattern' = name
    /\ type_pattern' = type
    /\ UNCHANGED <<store, conn_log, fetched, gvars, dvars, mvars, fvars, nvars, rvars, bvars>>

\* the statements of a reader on its connection, in order: LOAD 'age', SET
\* search_path, and the query
Statements == <<"execute", "execute", "fetch">>

\* the statement that fails, 0 when none does
FailurePoints == 0..Len(Statements)

\* a try block without the finally clause: the connection is closed only
\* when every statement succeeded
OnConnection_CloseOnSuccess(failed_at) ==
    IF failed_at = 0 THEN Statements \o <<"close">> ELSE SubSeq(Statements, 1, failed_at)

\* try: the statements up to the one that raises; finally: await conn.close()
OnConnection(failed_at) ==
    (IF failed_at = 0 THEN Statements ELSE SubSeq(Statements, 1, failed_at)) \o <<"close">>

\* conn = await asyncpg.connect(settings.postgres_dsn), outside the try block:
\* a failure to connect leaves the function with the exception
Connect(up) ==
    IF up
    THEN /\ conn_log' = Append(conn_log, "connect")
         /\ xpc' = "connected"
         /\ UNCHANGED fetched
    ELSE /\ conn_log' = Append(conn_log, "connect_failed")
         /\ xpc' = "raised"
         /\ fetched' = [kind |-> "ConnectionError"]

\* fetch_entities_by_regex up to the connection to the store
fetch_entities_by_regex_connect(up) ==
    /\ xpc = "call"
    /\ reader.fn = "none"
    /\ IF BothAbsent(name_pattern, type_pattern)
       THEN /\ fetched' = [kind |-> "ValueError"]
            /\ xpc' = "raised"
            /\ UNCHANGED conn_log
       ELSE Connect(up)
    /\ UNCHANGED <<name_pattern, type_pattern, store, gvars, dvars, mvars, fvars, nvars, rvars, bvars>>

\* fetch_entities_by_regex on the connection: the two set-up statements, the
\* query, and the close of the finally clause; any statement may fail
fetch_entities_by_regex_query(failed_at) ==
    /\ xpc = "connected"
    /\ reader.fn = "none"
    /\ conn_log' = conn_log \o OnConnection(failed_at)
    /\ IF failed_at = 0
       THEN /\ fetched' =
                [kind |-> "rows",
                 rows |-> OrderedRows({r \in store :
                                          WhereClause(r, name_pattern, type_pattern)})]
            /\ xpc' = "returned"
       ELSE /\ fetched' = [kind |-> "PostgresError"]
            /\ xpc' = "raised"
    /\ UNCHANGED <<name_pattern, type_pattern, store, gvars, dvars, mvars, fvars, nvars, rvars, bvars>>

ExtractInit ==
    /\ GroupersIdle
    /\ DeletionIdle
    /\ ExecutorIdle
    /\ PlanFileIdle
    /\ NormalizeIdle
    /\ ReaderIdle
    /\ ReplayIdle
    /\ xpc = "start"
    /\ name_pattern = NoneValue
    /\ type_pattern = NoneValue
    /\ store \in SUBSET StoreRows
    /\ conn_log = <<>>
    /\ fetched = [kind |-> "none"]

ExtractNext ==
    \/ \E name \in NamePatterns, type \in TypePatterns : extract_main(name, type)
    \/ \E name \in NamePatterns, type \in TypePatterns :
          fetch_entities_by_regex_called(name, type)
    \/ \E up \in BOOLEAN : fetch_entities_by_regex_connect(up)
    \/ \E failed_at \in FailurePoints : fetch_entities_by_regex_query(failed_at)

SpecExtract == ExtractInit /\ [][ExtractNext]_vars

-----------------------------------------------------------------------------
(* The readers of the grouping tools: fetch_cigref_entities of
   clean_merge_identify.py and fetch_entities_by_normalized_names of
   cigref1_merge_identify.py, next to fetch_entities_by_regex *)

\* the arguments tried: entity_types is None, an empty list or a list of types
EntityTypeLists == {NoneValue, Some(<<>>), Some(<<"PROFILE">>)}

\* normalized_names is an empty list or a list of normalized names
NormalizedNameLists == {{}, {normalize_entity_name(CV_001)}, {normalize_entity_name(AB)}}

\* ORDER BY entity_name
RECURSIVE RowsByName(_)
RowsByName(rows) ==
    IF rows = {} THEN <<>>
    ELSE LET first == CHOOSE r \in rows :
                          \A q \in rows \ {r} :
                              \/ StrLess(r.entity_name, q.entity_name)
                              \/ /\ r.entity_name = q.entity_name
                                 /\ StrLess(TypeText(r.entity_type), TypeText(q.entity_type))
         IN <<first>> \o RowsByName(rows \ {first})

\* the WHERE clause of fetch_cigref_entities: TRUE for None, else the filters
\* joined by OR; no filter leaves WHERE without a condition, which the store
\* rejects
EmptyWhere(entity_types) == entity_types.some /\ entity_types.v = <<>>

fetch_cigref_entities(rows, entity_types) ==
    OrderedRows({r \in rows :
                    entity_types.some =>
                        \E i \in 1..Len(entity_types.v) : entity_types.v[i] = r.entity_type})

fetch_cigref_entities_called(entity_types) ==
    /\ xpc = "start"
    /\ xpc' = "call"
    /\ reader' = [fn |-> "fetch_cigref_entities", entity_types |-> entity_types]
    /\ UNCHANGED <<name_pattern, type_pattern, store, conn_log, fetched,
                   gvars, dvars, mvars, fvars, nvars, bvars>>

fetch_entities_by_normalized_names_called(normalized_names) ==
    /\ xpc = "start"
    /\ xpc' = "call"
    /\ reader' = [fn |-> "fetch_entities_by_normalized_names",
                  normalized_names |-> normalized_names]
    /\ UNCHANGED <<name_pattern, type_pattern, store, conn_log, fetched,
                   gvars, dvars, mvars, fvars, nvars, bvars>>

\* either reader up to the connection to the store
reader_connect(up) ==
    /\ xpc = "call"
    /\ reader.fn # "none"
    /\ IF reader.fn = "fetch_entities_by_normalized_names" /\ reader.normalized_names = {}
       THEN /\ fetched' = [kind |-> "rows", rows |-> <<>>]
            /\ xpc' = "returned"
            /\ UNCHANGED conn_log
       ELSE Connect(up)
    /\ UNCHANGED <<name_pattern, type_pattern, store, gvars, dvars, mvars, fvars, nvars,
                   rvars, bvars>>

\* either reader on the connection
reader_query(failed_at) ==
    /\ xpc = "connected"
    /\ reader.fn # "none"
    /\ reader.fn = "fetch_cigref_entities" /\ EmptyWhere(reader.entity_types)
          => failed_at # 0
    /\ conn_log' = conn_log \o OnConnection(failed_at)
    /\ IF failed_at = 0
       THEN /\ fetched' =
                [kind |-> "rows",
                 rows |-> IF reader.fn = "fetch_cigref_entities"
                          THEN fetch_cigref_entities(store, reader.entity_types)
                          ELSE fetch_entities_by_normalized_names(
                                   RowsByName(store), reader.normalized_names)]
            /\ xpc' = "returned"
       ELSE /\ fetched' = [kind |-> "PostgresError"]
            /\ xpc' = "raised"
    /\ UNCHANGED <<name_pattern, type_pattern, store, gvars, dvars, mvars, fvars, nvars,
                   rvars, bvars>>

ReadNext ==
    \/ \E name \in NamePatterns, type \in TypePatterns :
          fetch_entities_by_regex_called(name, type)
    \/ \E up \in BOOLEAN : fetch_entities_by_regex_connect(up)
    \/ \E failed_at \in FailurePoints : fetch_entities_by_regex_query(failed_at)
    \/ \E entity_types \in EntityTypeLists : fetch_cigref_entities_called(entity_types)
    \/ \E normalized_names \in NormalizedNameLists :
          fetch_entities_by_normalized_names_called(normalized_names)
    \/ \E up \in BOOLEAN : reader_connect(up)
    \/ \E failed_at \in FailurePoints : reader_query(failed_at)

SpecRead == ExtractInit /\ [][ReadNext]_vars

-----------------------------------------------------------------------------
(* The plan file: json.dump in save_merge_operations, json.load and the
   validation in load_merge_operations, and main of cigref2_merge_entities *)

\* JSON values: strings (code points), integers, lists, and dicts as the
\* sequence of their items in insertion order
JStr(s) == [t |-> "str", v |-> s]
JInt(n) == [t |-> "int", v |-> n]
JList(items) == [t |-> "list", v |-> items]
JDict(items) == [t |-> "dict", v |-> items]

\* the keys of a merge operation, as text
K_entity_to_change_into == <<101, 110, 116, 105, 116, 121, 95, 116, 111, 95, 99, 104, 97, 110, 103, 101, 95, 105, 110, 116, 111>>
K_entities_to_change == <<101, 110, 116, 105, 116, 105, 101, 115, 95, 116, 111, 95, 99, 104, 97, 110, 103, 101>>
K_relationship_counts == <<114, 101, 108, 97, 116, 105, 111, 110, 115, 104, 105, 112, 95, 99, 111, 117, 110, 116, 115>>
K_entity_type == <<101, 110, 116, 105, 116, 121, 95, 116, 121, 112, 101>>
K_normalized_name == <<110, 111, 114, 109, 97, 108, 105, 122, 101, 100, 95, 110, 97, 109, 101>>

KeyText(field) ==
    CASE field = "entity_to_change_into" -> K_entity_to_change_into
      [] field = "entities_to_change" -> K_entities_to_change
      [] field = "relationship_counts" -> K_relationship_counts
      [] field = "entity_type" -> K_entity_type
      [] field = "normalized_name" -> K_normalized_name

\* the fields of an operation in the order the groupers insert them
OperationFields ==
    <<"entity_to_change_into", "entities_to_change", "relationship_counts",
      "entity_type", "normalized_name">>

\* ---- json.dump(merge_operations, f, indent=2, ensure_ascii=False)

HexDigit(n) == IF n < 10 THEN 48 + n ELSE 87 + n

\* a string that leaves quotes and backslashes as they are
EscapeChar_Raw(c) ==
    CASE c = 10 -> <<92, 110>>
      [] c = 13 -> <<92, 114>>
      [] c = 9 -> <<92, 116>>
      [] c = 8 -> <<92, 98>>
      [] c = 12 -> <<92, 102>>
      [] OTHER -> IF c < 32 THEN <<92, 117, 48, 48, HexDigit(c \div 16), HexDigit(c % 16)>>
                  ELSE <<c>>

\* the encoder's escapes: \" \\ \n \r \t \b \f, \u00XX for the other control
\* characters; every other character as it is (ensure_ascii=False)
EscapeChar(c) ==
    CASE c = 34 -> <<92, 34>>
      [] c = 92 -> <<92, 92>>
      [] c = 10 -> <<92, 110>>
      [] c = 13 -> <<92, 114>>
      [] c = 9 -> <<92, 116>>
      [] c = 8 -> <<92, 98>>
      [] c = 12 -> <<92, 102>>
      [] OTHER -> IF c < 32 THEN <<92, 117, 48, 48, HexDigit(c \div 16), HexDigit(c % 16)>>
                  ELSE <<c>>

RECURSIVE EscapeString(_)
EscapeString(s) ==
    IF s = <<>> THEN <<>> ELSE EscapeChar(Head(s)) \o EscapeString(Tail(s))

DumpString(s) == <<34>> \o EscapeString(s) \o <<34>>

RECURSIVE Digits(_)
Digits(n) == IF n < 10 THEN <<48 + n>> ELSE Digits(n \div 10) \o <<48 + (n % 10)>>

DumpInt(n) == IF n < 0 THEN <<45>> \o Digits(0 - n) ELSE Digits(n)

\* a newline and the indentation of a nesting level
RECURSIVE Spaces(_)
Spaces(n) == IF n = 0 THEN <<>> ELSE <<32>> \o Spaces(n - 1)

NewLine(level) == <<10>> \o Spaces(2 * level)

RECURSIVE DumpValue(_, _)
RECURSIVE DumpListItems(_, _, _)
RECURSIVE DumpDictItems(_, _, _)

DumpListItems(items, i, level) ==
    NewLine(level) \o DumpValue(items[i], level)
        \o (IF i < Len(items) THEN <<44>> \o DumpListItems(items, i + 1, level) ELSE <<>>)

DumpDictItems(items, i, level) ==
    NewLine(level) \o DumpString(items[i].k) \o <<58, 32>> \o DumpValue(items[i].v, level)
        \o (IF i < Len(items) THEN <<44>> \o DumpDictItems(items, i + 1, level) ELSE <<>>)

DumpValue(j, level) ==
    CASE j.t = "str" -> DumpString(j.v)
      [] j.t = "int" -> DumpInt(j.v)
      [] j.t = "list" ->
            IF j.v = <<>> THEN <<91, 93>>
            ELSE <<91>> \o DumpListItems(j.v, 1, level + 1) \o NewLine(level) \o <<93>>
      [] j.t = "dict" ->
            IF j.v = <<>> THEN <<123, 125>>
            ELSE <<123>> \o DumpDictItems(j.v, 1, level + 1) \o NewLine(level) \o <<125>>

json_dump(j) == DumpValue(j, 0)

\* ---- json.load(f)

JsonError == [ok |-> FALSE, j |-> [t |-> "none"], pos |-> 0]
Parsed(j, pos) == [ok |-> TRUE, j |-> j, pos |-> pos]

IsJsonSpace(c) == c \in {32, 9, 10, 13}

RECURSIVE SkipSpace(_, _)
SkipSpace(text, pos) ==
    IF pos <= Len(text) /\ IsJsonSpace(text[pos]) THEN SkipSpace(text, pos + 1) ELSE pos

At(text, pos, c) == pos <= Len(text) /\ text[pos] = c

IsHex(c) == c \in 48..57 \/ c \in 97..102 \/ c \in 65..70
HexValue(c) == IF c \in 48..57 THEN c - 48 ELSE IF c \in 97..102 THEN c - 87 ELSE c - 55

\* the character of a one-letter escape
Unescaped(e) ==
    CASE e = 110 -> 10
      [] e = 114 -> 13
      [] e = 116 -> 9
      [] e = 98 -> 8
      [] e = 102 -> 12
      [] OTHER -> e

\* the decoder scanning a string from the character after the opening quote
RECURSIVE ScanString(_, _, _)
ScanString(text, pos, acc) ==
    IF pos > Len(text) THEN JsonError
    ELSE IF text[pos] = 34 THEN Parsed(JStr(acc), pos + 1)
    ELSE IF text[pos] < 32 THEN JsonError
    ELSE IF text[pos] # 92 THEN ScanString(text, pos + 1, Append(acc, text[pos]))
    ELSE IF pos + 1 > Len(text) THEN JsonError
    ELSE IF text[pos + 1] \in {34, 92, 47, 98, 102, 110, 114, 116}
         THEN ScanString(text, pos + 2, Append(acc, Unescaped(text[pos + 1])))
    ELSE IF /\ text[pos + 1] = 117
            /\ pos + 5 <= Len(text)
            /\ \A k \in 2..5 : IsHex(text[pos + k])
         THEN ScanString(text, pos + 6,
                         Append(acc, 4096 * HexValue(text[pos + 2]) + 256 * HexValue(text[pos + 3])
                                     + 16 * HexValue(text[pos + 4]) + HexValue(text[pos + 5])))
    ELSE JsonError

RECURSIVE ScanDigits(_, _, _)
ScanDigits(text, pos, n) ==
    IF pos <= Len(text) /\ text[pos] \in 48..57
    THEN ScanDigits(text, pos + 1, 10 * n + (text[pos] - 48))
    ELSE Parsed(JInt(n), pos)

ParseInt(text, pos) ==
    IF At(text, pos, 45)
    THEN IF pos + 1 <= Len(text) /\ text[pos + 1] \in 48..57
         THEN LET r == ScanDigits(text, pos + 1, 0) IN Parsed(JInt(0 - r.j.v), r.pos)
         ELSE JsonError
    ELSE ScanDigits(text, pos, 0)

RECURSIVE ParseValue(_, _)
RECURSIVE ParseListItems(_, _, _)
RECURSIVE ParseDictItems(_, _, _)

\* the items of a list, from the first character of an item
ParseListItems(text, pos, acc) ==
    LET r == ParseValue(text, pos)
        p == SkipSpace(text, r.pos)
    IN IF ~r.ok THEN JsonError
       ELSE IF At(text, p, 44) THEN ParseListItems(text, p + 1, Append(acc, r.j))
       ELSE IF At(text, p, 93) THEN Parsed(JList(Append(acc, r.j)), p + 1)
       ELSE JsonError

\* the items of a dict, from the first character of a key
ParseDictItems(text, pos, acc) ==
    LET q == SkipSpace(text, pos)
        key == IF At(text, q, 34) THEN ScanString(text, q + 1, <<>>) ELSE JsonError
        c == SkipSpace(text, key.pos)
        r == IF key.ok /\ At(text, c, 58) THEN ParseValue(text, c + 1) ELSE JsonError
        p == SkipSpace(text, r.pos)
        item == [k |-> key.j.v, v |-> r.j]
    IN IF ~r.ok THEN JsonError
       ELSE IF At(text, p, 44) THEN ParseDictItems(text, p + 1, Append(acc, item))
       ELSE IF At(text, p, 125) THEN Parsed(JDict(Append(acc, item)), p + 1)
       ELSE JsonError

ParseValue(text, pos) ==
    LET p == SkipSpace(text, pos)
    IN IF p > Len(text) THEN JsonError
       ELSE IF text[p] = 34 THEN ScanString(text, p + 1, <<>>)
       ELSE IF text[p] = 91
            THEN IF At(text, SkipSpace(text, p + 1), 93)
                 THEN Parsed(JList(<<>>), SkipSpace(text, p + 1) + 1)
                 ELSE ParseListItems(text, p + 1, <<>>)
       ELSE IF text[p] = 123
            THEN IF At(text, SkipSpace(text, p + 1), 125)
                 THEN Parsed(JDict(<<>>), SkipSpace(text, p + 1) + 1)
                 ELSE ParseDictItems(text, p + 1, <<>>)
       ELSE IF text[p] = 45 \/ text[p] \in 48..57 THEN ParseInt(text, p)
       ELSE JsonError

\* json.load: one value, and nothing but white space after it
json_load(text) ==
    LET r == ParseValue(text, 1)
    IN IF r.ok /\ SkipSpace(text, r.pos) > Len(text) THEN r ELSE JsonError

\* ---- merge operations as JSON values

\* the entity type named by a text
TypeOfText(text) ==
    IF \E ty \in Types : TypeText(ty) = text
    THEN CHOOSE ty \in Types : TypeText(ty) = text
    ELSE "UNKNOWN"

HasKey(j, key) == \E i \in 1..Len(j.v) : j.v[i].k = key

\* d[key]
GetKey(j, key) == j.v[CHOOSE i \in 1..Len(j.v) : j.v[i].k = key].v

\* the JSON value of a field of an operation
FieldJson(op, field) ==
    CASE field = "entity_to_change_into" -> JStr(op.entity_to_change_into)
      [] field = "entities_to_change" ->
            JList([i \in 1..Len(op.entities_to_change) |-> JStr(op.entities_to_change[i])])
      [] field = "relationship_counts" ->
            JDict([i \in 1..Len(op.relationship_counts) |->
                      [k |-> op.relationship_counts[i].name,
                       v |-> JInt(op.relationship_counts[i].count)]])
      [] field = "entity_type" -> JStr(TypeText(op.entity_type))
      [] field = "normalized_name" -> JStr(op.normalized_name)

RECURSIVE OperationItems(_, _)
OperationItems(op, fields) ==
    IF fields = <<>> THEN <<>>
    ELSE (IF Head(fields) \in DOMAIN op
          THEN <<[k |-> KeyText(Head(fields)), v |-> FieldJson(op, Head(fields))]>>
          ELSE <<>>) \o OperationItems(op, Tail(fields))

\* an operation dictionary as a JSON value
OperationJson(op) == JDict(OperationItems(op, OperationFields))

PlanJson(ops) == JList([i \in 1..Len(ops) |-> OperationJson(ops[i])])

\* the field of an operation from its JSON value
FieldOfJson(field, j) ==
    CASE field = "entities_to_change" -> [i \in 1..Len(j.v) |-> j.v[i].v]
      [] field = "relationship_counts" ->
            [i \in 1..Len(j.v) |-> [name |-> j.v[i].k, count |-> j.v[i].v.v]]
      [] field = "entity_type" -> TypeOfText(j.v)
      [] OTHER -> j.v

\* the operation dictionary of a JSON value
OperationOfJson(j) ==
    [field \in {f \in Range(OperationFields) : HasKey(j, KeyText(f))} |->
        FieldOfJson(field, GetKey(j, KeyText(field)))]

\* ---- load_merge_operations

\* the check of one element
ElementError(op) ==
    IF ~HasKey(op, K_entity_to_change_into) THEN "missing 'entity_to_change_into'"
    ELSE IF ~HasKey(op, K_entities_to_change) THEN "missing 'entities_to_change'"
    ELSE IF GetKey(op, K_entities_to_change).t # "list"
         THEN "'entities_to_change' must be a list"
    ELSE "none"

\* for idx, op in enumerate(operations): the first error, with its index
RECURSIVE Validate(_, _)
Validate(ops, i) ==
    IF i > Len(ops) THEN [kind |-> "ok"]
    ELSE IF ElementError(ops[i]) # "none"
         THEN [kind |-> "ValueError", idx |-> i - 1, what |-> ElementError(ops[i])]
    ELSE Validate(ops, i + 1)

load_merge_operations(file) ==
    IF ~file.exists THEN [kind |-> "FileNotFoundError"]
    ELSE LET r == json_load(file.text)
         IN IF ~r.ok THEN [kind |-> "JSONDecodeError"]
            ELSE IF Validate(r.j.v, 1).kind # "ok" THEN Validate(r.j.v, 1)
            ELSE [kind |-> "ok", operations |-> r.j.v]

\* ---- the files tried

\* an operation whose names need escapes, with a two-digit count
QuotedOperation ==
    [entity_to_change_into |-> <<65, 34, 66>>,
     entities_to_change |-> << <<97, 92, 98>>, <<65, 9, 66>> >>,
     relationship_counts |-> <<[name |-> <<65, 34, 66>>, count |-> 12]>>,
     entity_type |-> "CV",
     normalized_name |-> <<97, 34, 98>>]

\* the operations the groupers give for the name CV_001 fetched under two
\* types: identify_duplicates_for_canonical names the survivor among the
\* entities to change, cross-type mode leaves the list empty
SelfMergeOperation ==
    [entity_to_change_into |-> CV_001, entities_to_change |-> <<CV_001>>,
     relationship_counts |-> <<[name |-> CV_001, count |-> 1]>>,
     entity_type |-> "PROFILE", normalized_name |-> CV_SP_001]

EmptyMergeOperation ==
    [entity_to_change_into |-> CV_001, entities_to_change |-> <<>>,
     relationship_counts |-> <<[name |-> CV_001, count |-> 1]>>,
     entity_type |-> "CV", normalized_name |-> KEY_cv001]

SavedOperations ==
    PlanOperations \cup {QuotedOperation, SelfMergeOperation, EmptyMergeOperation}

RECURSIVE SequencesOf(_, _)
SequencesOf(S, n) ==
    IF n = 0 THEN {<<>>}
    ELSE SequencesOf(S, n - 1)
            \cup {Append(p, o) : p \in {q \in SequencesOf(S, n - 1) : Len(q) = n - 1}, o \in S}

\* a dict without a key, and with another value under a key
WithoutKey(j, key) ==
    LET Other(item) == item.k # key IN JDict(SelectSeq(j.v, Other))

WithKey(j, key, value) ==
    JDict([i \in 1..Len(j.v) |-> IF j.v[i].k = key THEN [k |-> key, v |-> value] ELSE j.v[i]])

\* elements a file written by hand or by another tool may hold
BaseElement ==
    OperationJson([entity_to_change_into |-> CV_001, entities_to_change |-> <<cv_001>>])

OddElements ==
    {WithoutKey(BaseElement, K_entity_to_change_into),
     WithKey(BaseElement, K_entity_to_change_into, JStr(<<>>)),
     WithoutKey(BaseElement, K_entities_to_change),
     WithKey(BaseElement, K_entities_to_change, JStr(cv_001))}

FileElements == {BaseElement} \cup OddElements

\* ---- the plan file as a state machine

\* save_merge_operations of an identify tool
save_merge_operations(merge_ops) ==
    /\ mpc = "idle"
    /\ ~plan_file.exists
    /\ plan_file' = [exists |-> TRUE, text |-> json_dump(PlanJson(merge_ops))]
    /\ plan_source' = [by |-> "save_merge_operations", content |-> merge_ops]
    /\ UNCHANGED <<loaded, gvars, dvars, mvars, xvars, nvars, rvars, bvars>>

\* a plan file from elsewhere: edited by hand, or written by another tool
write_plan_file(document) ==
    /\ mpc = "idle"
    /\ ~plan_file.exists
    /\ \E i \in 1..Len(document) : document[i] \in OddElements
    /\ plan_file' = [exists |-> TRUE, text |-> json_dump(JList(document))]
    /\ plan_source' = [by |-> "other", content |-> document]
    /\ UNCHANGED <<loaded, gvars, dvars, mvars, xvars, nvars, rvars, bvars>>

\* main of cigref2_merge_entities up to the call of execute_merge_operations:
\* an exception of load_merge_operations ends the program
main_load(dry, size, attempts) ==
    /\ mpc = "idle"
    /\ loaded.kind = "none"
    /\ loaded' = load_merge_operations(plan_file)
    /\ IF loaded'.kind # "ok"
       THEN /\ mpc' = "crashed"
            /\ UNCHANGED <<operations, dry_run, batch_size, retry_attempts, results,
                           remote, sleeps>>
       ELSE /\ mpc' = "batch"
            /\ operations' = [i \in 1..Len(loaded'.operations) |->
                                 OperationOfJson(loaded'.operations[i])]
            /\ dry_run' = dry
            /\ batch_size' = size
            /\ retry_attempts' = attempts
            /\ results' = [total |-> Len(operations'), successful |-> 0, failed |-> 0,
                           details |-> <<>>]
            /\ remote' = [i \in 1..Len(operations') |-> NoCalls]
            /\ sleeps' = [i \in 1..Len(operations') |-> <<>>]
    /\ UNCHANGED <<bi, opi, attempt, delay, last_exception, result, batches, verbose_api,
                   plan_file, plan_source, gvars, dvars, xvars, nvars, rvars, bvars>>

PlanInit ==
    /\ GroupersIdle
    /\ DeletionIdle
    /\ ExecutorIdle
    /\ ExtractIdle
    /\ NormalizeIdle
    /\ PlanFileIdle
    /\ ReaderIdle
    /\ ReplayIdle

PlanNext ==
    \/ \E merge_ops \in SequencesOf(SavedOperations, MaxOps) : save_merge_operations(merge_ops)
    \/ \E document \in SequencesOf(FileElements, MaxOps) : write_plan_file(document)
    \/ \E dry \in BOOLEAN, attempts \in {0, 1} : main_load(dry, MaxBatch, attempts)
    \/ ExecNext

SpecPlan == PlanInit /\ [][PlanNext]_vars

-----------------------------------------------------------------------------
(* normalize_entity_name applied to two names, then to its own result *)

\* the code points names are written with: A, a, capital and small sigma,
\* space, underscore, hyphen, tab
NameAlphabet == {65, 97, CapitalSigma, SmallSigma, 32, 95, 45, 9}

RECURSIVE NamesUpTo(_)
NamesUpTo(n) ==
    IF n = 0 THEN {<<>>}
    ELSE LET shorter == NamesUpTo(n - 1)
         IN shorter \cup {name \o <<c>> : name \in {m \in shorter : Len(m) = n - 1},
                                          c \in NameAlphabet}

\* the keys of the two names, as the groupers compute them for two entities
normalize_names ==
    /\ n_keys.step = 0
    /\ n_keys' = [n_keys EXCEPT !.step = 1,
                                !.name = normalize_entity_name(n_name),
                                !.other = normalize_entity_name(n_other)]
    /\ UNCHANGED <<n_name, n_other, gvars, dvars, mvars, xvars, fvars, rvars, bvars>>

\* the key of a name that is itself a key
normalize_again ==
    /\ n_keys.step = 1
    /\ n_keys' = [n_keys EXCEPT !.step = 2,
                                !.again = normalize_entity_name(n_keys.name)]
    /\ UNCHANGED <<n_name, n_other, gvars, dvars, mvars, xvars, fvars, rvars, bvars>>

NormalizeInit ==
    /\ n_name \in NamesUpTo(MaxNameLen)
    /\ n_other \in NamesUpTo(MaxOtherLen)
    /\ n_keys = NoKeys
    /\ GroupersIdle /\ DeletionIdle /\ ExecutorIdle /\ ExtractIdle /\ PlanFileIdle
    /\ ReaderIdle /\ ReplayIdle

NormalizeNext == normalize_names \/ normalize_again

SpecNormalize == NormalizeInit /\ [][NormalizeNext]_vars

\* the tools are separate programs; Spec runs any one of them
Init ==
    \/ GroupInit \/ DeleteInit \/ ExecInit \/ ExtractInit \/ PlanInit \/ NormalizeInit
    \/ BatchInit
Next ==
    \/ GroupNext \/ CanonicalNext \/ DeleteNext \/ ExecNext
    \/ ExtractNext \/ PlanNext \/ NormalizeNext \/ ReadNext \/ BatchNext
Spec == Init /\ [][Next]_vars

-----------------------------------------------------------------------------
(* Properties of the groupers *)

\* whether two entities of the grouper's input fall into one group
SameGroup(a, b) ==
    CASE grouper.fn = "identify_duplicates" ->
            Lower(a.entity_name) = Lower(b.entity_name)
      [] grouper.fn = "identify_duplicates_by_normalization" ->
            /\ normalize_entity_name(a.entity_name) = normalize_entity_name(b.entity_name)
            /\ grouper.merge_across_types \/ a.entity_type = b.entity_type
      [] grouper.fn = "identify_duplicates_for_canonical" ->
            a.normalized_name = b.normalized_name
      [] OTHER -> FALSE

SameTypeMode ==
    /\ grouper.fn = "identify_duplicates_by_normalization"
    /\ ~grouper.merge_across_types

\* e is the input entity that operation op keeps
IsSurvivorOf(e, op) ==
    /\ e.entity_name = op.entity_to_change_into
    /\ SameTypeMode => e.entity_type = op.entity_type

\* e wins against f under (relationship_count DESC, name ASC)
WinsOver(e, f) ==
    \/ f.relationship_count < e.relationship_count
    \/ /\ f.relationship_count = e.relationship_count
       /\ ~StrLess(f.entity_name, e.entity_name)

\* the example of the canonical-selection rule
SelectionExample ==
    <<[entity_name |-> CV_001, entity_type |-> "CV", relationship_count |-> 5],
      [entity_name |-> cv_001, entity_type |-> "CV", relationship_count |-> 1],
      [entity_name |-> Cv_001, entity_type |-> "CV", relationship_count |-> 5]>>

\* C1: in every grouper the survivor of a group is the member with the highest
\* relationship_count, a tie being broken by ascending name order; for the
\* entities (CV_001, 5), (cv_001, 1), (Cv_001, 5) the survivor is CV_001.
C1_CanonicalSelection ==
    grouper.fn # "none" =>
        /\ \A k \in 1..Len(merge_operations) :
              \E i \in 1..Len(grouper.input) :
                 /\ IsSurvivorOf(grouper.input[i], merge_operations[k])
                 /\ \A j \in 1..Len(grouper.input) :
                       SameGroup(grouper.input[i], grouper.input[j])
                           => WinsOver(grouper.input[i], grouper.input[j])
        /\ entities = SelectionExample =>
              /\ Len(merge_operations) = 1
              /\ merge_operations[1].entity_to_change_into = CV_001

\* the names an operation mentions, as survivor or as retiree
OperationNames(op) == {op.entity_to_change_into} \cup Range(op.entities_to_change)

\* the number of input entities in the group of input entity i
GroupSize(i) ==
    Cardinality({j \in 1..Len(grouper.input) :
                    SameGroup(grouper.input[i], grouper.input[j])})

\* C2: the operations of identify_duplicates_by_normalization partition the
\* duplicated entities, in both modes and for any input list: no name occurs in
\* two operations, and every entity of a group of size >= 2 occurs in exactly
\* one operation.
C2_PartitionInvariant ==
    grouper.fn = "identify_duplicates_by_normalization" =>
        /\ \A k, l \in 1..Len(merge_operations) :
              k # l => OperationNames(merge_operations[k])
                          \cap OperationNames(merge_operations[l]) = {}
        /\ \A i \in 1..Len(grouper.input) :
              GroupSize(i) >= 2 =>
                 Cardinality({k \in 1..Len(merge_operations) :
                                 grouper.input[i].entity_name
                                     \in OperationNames(merge_operations[k])}) = 1

CrossTypeMode ==
    /\ grouper.fn = "identify_duplicates_by_normalization"
    /\ grouper.merge_across_types

\* the input entities of the group an operation of cross-type mode came from
MembersOf(op) ==
    {i \in 1..Len(grouper.input) :
        normalize_entity_name(grouper.input[i].entity_name) = op.normalized_name}

TypesOf(members) == {grouper.input[i].entity_type : i \in members}

\* the first type of the list, in list order, that is among the present ones
FirstPresent(types, present) ==
    types[CHOOSE n \in 1..Len(types) :
              /\ types[n] \in present
              /\ \A m \in 1..(n - 1) : types[m] \notin present]

\* C11: in cross-type mode with a preferred-types list, an operation whose
\* group holds a member of a preferred type reports as entity_type the first
\* type of the list (in list order) that occurs in the group, whichever member
\* survives and whatever the relationship counts; the survivor is a member
\* with the highest relationship_count.
C11_PreferredTypeOverride ==
    (CrossTypeMode /\ grouper.target_entity_types # <<>>) =>
        \A k \in 1..Len(merge_operations) :
           LET op == merge_operations[k]
               members == MembersOf(op)
               preferred == grouper.target_entity_types
           IN /\ TypesOf(members) \cap Range(preferred) # {} =>
                    op.entity_type = FirstPresent(preferred, TypesOf(members))
              /\ \E i \in members :
                    /\ grouper.input[i].entity_name = op.entity_to_change_into
                    /\ \A j \in members :
                          grouper.input[j].relationship_count
                              <= grouper.input[i].relationship_count

CanonicalMode == grouper.fn = "identify_duplicates_for_canonical"

\* the grouping keys of the fetched entities
InputKeys == {grouper.input[i].normalized_name : i \in 1..Len(grouper.input)}

\* the fetched entities of one key
KeyMembers(key) == {i \in 1..Len(grouper.input) : grouper.input[i].normalized_name = key}

\* the keys of the groups of two or more entities that both canonical maps hold
ListedDuplicateKeys ==
    {key \in InputKeys :
        /\ Cardinality(KeyMembers(key)) >= 2
        /\ key \in DOMAIN grouper.canonical_entities
        /\ key \in DOMAIN grouper.canonical_entity_types}

\* the operations produced for a key
OperationsOfKey(key) ==
    {k \in 1..Len(merge_operations) :
        normalize_entity_name(merge_operations[k].normalized_name) = key}

NoRepeats(s) == \A i, j \in 1..Len(s) : i # j => s[i] # s[j]

\* C13: no operation of identify_duplicates_by_normalization (either mode) or
\* identify_duplicates_for_canonical is degenerate, on any input list:
\* entities_to_change is non-empty, repeats no name and does not hold the
\* survivor entity_to_change_into.
C13_NoDegenerateOperation ==
    grouper.fn \in {"identify_duplicates_by_normalization",
                    "identify_duplicates_for_canonical"} =>
        \A k \in 1..Len(merge_operations) :
           /\ merge_operations[k].entities_to_change # <<>>
           /\ NoRepeats(merge_operations[k].entities_to_change)
           /\ merge_operations[k].entity_to_change_into
                  \notin Range(merge_operations[k].entities_to_change)

\* the key the grouper that ran groups its i-th input entity by
GroupingKey(i) ==
    IF grouper.fn = "identify_duplicates" THEN Lower(grouper.input[i].entity_name)
    ELSE IF CanonicalMode THEN grouper.input[i].normalized_name
    ELSE IF SameTypeMode
         THEN <<normalize_entity_name(grouper.input[i].entity_name),
                grouper.input[i].entity_type>>
    ELSE normalize_entity_name(grouper.input[i].entity_name)

\* the input entities that share their grouping key with no other
AloneInGroup(keys) ==
    {i \in DOMAIN keys : \A j \in DOMAIN keys : j # i => keys[j] # keys[i]}

\* the i-th input entity is the survivor or a merged entity of an operation;
\* the operations of same-type mode are those of the entity's own type
AppearsIn(i, op) ==
    /\ SameTypeMode => op.entity_type = grouper.input[i].entity_type
    /\ \/ op.entity_to_change_into = grouper.input[i].entity_name
       \/ \E m \in 1..Len(op.entities_to_change) :
             op.entities_to_change[m] = grouper.input[i].entity_name

OperationChoice(op) ==
    [entity_to_change_into |-> op.entity_to_change_into,
     entity_type |-> op.entity_type,
     entities_to_change |-> op.entities_to_change]

OperationChoices(ops) == {OperationChoice(ops[k]) : k \in 1..Len(ops)}

\* a list in another order
Permuted(s, p) == [i \in 1..Len(s) |-> s[p[i]]]

\* C29: identify_duplicates_by_normalization gives, for every order of its
\* input, the same operations: the same survivor, type and entities to change
\* for each group, in same-type and in cross-type mode, with or without
\* preferred types.
C29_OrderIndependentGrouping ==
    grouper.fn = "identify_duplicates_by_normalization" =>
        \A p \in Permutations(1..Len(grouper.input)) :
            OperationChoices(identify_duplicates_by_normalization(
                                 Permuted(grouper.input, p),
                                 grouper.merge_across_types,
                                 grouper.target_entity_types))
                = OperationChoices(merge_operations)

-----------------------------------------------------------------------------
(* Properties of the deletion utility *)

Last(q) == q[Len(q)]

\* the loop has started: stats, responses and dsleeps exist
DeletionStarted == dpc \in {"request", "returned", "done"} /\ responses # <<>>

\* main has accounted for entity i
Accounted(i) == i < di \/ (i = di /\ dpc = "done")

\* delete_with_retry has returned for entity i
Returned(i) == Accounted(i) \/ (i = di /\ dpc = "returned")

\* the accounted entities whose delete_with_retry returned one of the kinds
AccountedAs(kinds) ==
    {i \in 1..Len(d_entities) : Accounted(i) /\ Last(responses[i]) \in kinds}

Terminal == {"not_found", "client_error"}
Retryable == {"server_error", "network_error"}

\* C3: a 404 is terminal: no request and no sleep follows it, an entity whose
\* first request returns 404 gets exactly one request, and main counts it under
\* not_found and not under failed; a client_error is never retried either.
C3_NotFoundIsTerminal ==
    DeletionStarted =>
        /\ \A i \in 1..Len(d_entities) :
              /\ \A k \in 1..Len(responses[i]) :
                    responses[i][k] \in Terminal =>
                       /\ k = Len(responses[i])
                       /\ Len(dsleeps[i]) = k - 1
                       /\ Returned(i)
              /\ (responses[i] # <<>> /\ responses[i][1] \in Terminal) =>
                    /\ Len(responses[i]) = 1
                    /\ dsleeps[i] = <<>>
        /\ stats.not_found = Cardinality(AccountedAs({"not_found"}))
        /\ stats.failed = Cardinality(AccountedAs({"client_error"} \cup Retryable))
        /\ stats.client_errors = Cardinality(AccountedAs({"client_error"}))

C3_Witness ==
    /\ dpc = "done"
    /\ Len(responses) = 2
    /\ responses[1] = <<"not_found">>
    /\ responses[2] = <<"server_error", "client_error">>
    /\ stats.not_found = 1
    /\ stats.failed = 1

\* C4: an entity whose requests keep failing with a 503 or a network error gets
\* max_retries + 1 requests and no more, and is then counted under failed and
\* under server_errors or network_errors; a 200 ends the retries and the
\* entity is counted as deleted.
C4_RetryUpToMaxRetries ==
    DeletionStarted =>
        /\ \A i \in 1..Len(d_entities) :
              /\ Len(responses[i]) <= MaxRetries + 1
              /\ (Returned(i) /\ Last(responses[i]) \in Retryable) =>
                    /\ Len(responses[i]) = MaxRetries + 1
                    /\ i = di /\ dpc = "returned" => returned = <<FALSE, Last(responses[i])>>
              /\ \A k \in 1..Len(responses[i]) :
                    /\ responses[i][k] \in Retryable /\ k < MaxRetries + 1 =>
                          Len(dsleeps[i]) >= k
                    /\ responses[i][k] = "success" =>
                          /\ k = Len(responses[i])
                          /\ Returned(i)
                          /\ Len(dsleeps[i]) = k - 1
        /\ stats.server_errors = Cardinality(AccountedAs({"server_error"}))
        /\ stats.network_errors = Cardinality(AccountedAs({"network_error"}))
        /\ stats.failed >= stats.server_errors + stats.network_errors
        /\ stats.deleted = Cardinality(AccountedAs({"success"}))

C4_Witness ==
    /\ dpc = "done"
    /\ Len(responses) = 2
    /\ responses[1] = <<"server_error", "server_error", "server_error", "server_error">>
    /\ responses[2] = <<"network_error", "network_error", "success">>
    /\ stats.server_errors = 1
    /\ stats.failed = 1
    /\ stats.deleted = 1

\* the entities the deletion loop has classified
Classified ==
    IF dpc = "done" THEN 1..Len(d_entities)
    ELSE IF dpc \in {"request", "returned"} THEN 1..(di - 1)
    ELSE {}

\* the classified entities whose last attempt ended in a class
LastAttemptIn(class) ==
    Cardinality({i \in Classified : responses[i] # <<>> /\ Last(responses[i]) = class})

\* C26: every entity the deletion loop has processed is counted once, under
\* the class of its last attempt: deleted, not_found, client_errors,
\* server_errors and network_errors are the numbers of entities of each class,
\* failed is the sum of the three error classes, and after the loop
\* deleted + not_found + failed = total.
C26_DeletionAccounting ==
    (dpc \in {"request", "returned", "done"} /\ ~d_dry_run /\ d_entities # <<>>) =>
        /\ stats.deleted = LastAttemptIn("success")
        /\ stats.not_found = LastAttemptIn("not_found")
        /\ stats.client_errors = LastAttemptIn("client_error")
        /\ stats.server_errors = LastAttemptIn("server_error")
        /\ stats.network_errors = LastAttemptIn("network_error")
        /\ stats.failed
               = stats.client_errors + stats.server_errors + stats.network_errors
        /\ stats.deleted + stats.not_found + stats.failed = Cardinality(Classified)
        /\ dpc = "done" =>
               stats.deleted + stats.not_found + stats.failed = stats.total
        /\ \A i \in Classified :
               Last(responses[i]) \in {"success", "not_found", "client_error",
                                       "server_error", "network_error"}

\* the loop has ended; an entity failed with a server error and then, on its
\* last attempt, with a network error, and is counted as a network error only
C26_Witness ==
    /\ dpc = "done"
    /\ ~d_dry_run
    /\ Len(d_entities) = 2
    /\ responses[1] = <<"server_error", "server_error", "server_error", "network_error">>
    /\ responses[2] = <<"success">>
    /\ stats.network_errors = 1
    /\ stats.server_errors = 0
    /\ stats.failed = 1

-----------------------------------------------------------------------------
(* Properties of the merge executor *)

details == results.details

\* the details entries with one of the statuses
DetailsWith(statuses) == {k \in 1..Len(details) : details[k].status \in statuses}

\* the merge call of operation k returned
MergeSucceeded(k) == remote[k].merge_calls >= 1 /\ remote[k].merge_last = NoException

\* successful is incremented right after the merge, ahead of the rename and of
\* the details entry
CountersMatchDetails ==
    /\ results.successful =
           Cardinality(DetailsWith({"success"})) + (IF mpc = "edit" THEN 1 ELSE 0)
    /\ results.failed = Cardinality(DetailsWith({"failed"}))

\* C5: with max_attempts = 3 a merge that fails twice and succeeds on the third
\* attempt is recorded as success and counted in successful only; a merge that
\* fails on all max_attempts attempts is recorded as failed, counted in failed,
\* with the message of the last exception raised.
C5_MergeRetryPolicy ==
    (mpc # "idle" /\ retry_attempts >= 1) =>
        /\ \A k \in 1..Len(details) :
              ~dry_run =>
                 /\ remote[k].merge_calls <= retry_attempts
                 /\ MergeSucceeded(k) =>
                       /\ details[k].status = "success"
                       /\ remote[k].merge_failures = remote[k].merge_calls - 1
                 /\ ~MergeSucceeded(k) =>
                       /\ remote[k].merge_failures = retry_attempts
                       /\ details[k].status = "failed"
                       /\ details[k].message = Some(StrOf(remote[k].merge_last))
        /\ CountersMatchDetails

C5_Witness ==
    /\ mpc = "done"
    /\ retry_attempts = DefaultRetryAttempts
    /\ Len(details) = 2
    /\ remote[1].merge_calls = 3 /\ remote[1].merge_failures = 2
    /\ details[1].status = "success"
    /\ remote[2].merge_failures = 3
    /\ details[2].status = "failed"
    /\ details[2].message = Some(Msg("API returned status", 500))
    /\ results.successful = 1 /\ results.failed = 1

\* C6: in dry-run mode no remote call is ever issued, every processed
\* operation has a details entry with status dry_run, successful and failed
\* stay 0, and at the end every operation of the plan has its entry.
C6_DryRunSafety ==
    (mpc # "idle" /\ dry_run) =>
        /\ \A k \in 1..Len(operations) : remote[k] = NoCalls
        /\ \A k \in 1..Len(details) : details[k].status = "dry_run"
        /\ results.successful = 0
        /\ results.failed = 0
        /\ mpc \notin {"merge", "edit"}
        /\ mpc = "done" => Len(details) = Len(operations)

C6_Witness ==
    /\ mpc = "done"
    /\ dry_run
    /\ Len(operations) = 2
    /\ Len(details) = 2
    /\ details[2].status = "dry_run"
    /\ "normalized_name" \in DOMAIN operations[1]

\* an upper bound on the steps the run still takes
StepsPerOperation == 2 * retry_attempts + 2

RemainingSteps ==
    LET n == Len(operations)
        notBegun == IF mpc \in {"op", "merge", "edit"} THEN n - opi ELSE n - Len(details)
        merges == IF retry_attempts = 0 THEN 1 ELSE retry_attempts
        current == CASE mpc = "op" -> StepsPerOperation
                     [] mpc = "merge" -> (merges - attempt + 1) + retry_attempts
                     [] mpc = "edit" -> retry_attempts - attempt + 1
                     [] OTHER -> 0
    IN IF mpc \in {"done", "idle"} THEN 0
       ELSE notBegun * (StepsPerOperation + 1) + current + 1

\* the details are the processed operations, in plan order
DetailsFollowPlan ==
    /\ Len(details) <= Len(operations)
    /\ \A k \in 1..Len(details) :
          /\ details[k].entity_to_change_into = operations[k].entity_to_change_into
          /\ details[k].entities_to_change = operations[k].entities_to_change
          /\ details[k].status \in {"success", "failed", "dry_run"}

\* C7: a failed operation never aborts the run: the run terminates (every step
\* uses up one of a bounded number of remaining steps and the run is never
\* stuck before the end), at the end every operation of the plan has been
\* processed, in plan order, and the step that records a failed operation
\* leads on to the next operation or to the end of the plan.
C7_FailureNeverAborts ==
    /\ [](mpc # "idle" =>
            /\ DetailsFollowPlan
            /\ mpc # "done" => ENABLED ExecNext
            /\ mpc = "done" => Len(details) = Len(operations))
    /\ [][/\ RemainingSteps' < RemainingSteps
          /\ (Len(details') = Len(details) + 1 /\ Last(details').status = "failed") =>
                \/ mpc' = "op" /\ opi' = Len(details') + 1 /\ opi' <= Len(operations)
                \/ mpc' = "batch"]_vars

C7_Witness ==
    /\ mpc = "done"
    /\ Len(details) = 2
    /\ details[1].status = "failed"
    /\ details[2].status = "success"
    /\ remote[2].merge_calls >= 1

RenameGaveUp(k) == remote[k].edit_calls >= 1 /\ remote[k].edit_last # NoException

\* C9: when the merge succeeded and the rename failed on all its attempts, the
\* operation stays success, successful stays incremented, failed is not
\* incremented, entity_updated is false and update_message holds the edit error.
C9_RenameFailureKeepsVerdict ==
    (mpc # "idle") =>
        /\ \A k \in 1..Len(details) :
              RenameGaveUp(k) =>
                 /\ MergeSucceeded(k)
                 /\ remote[k].edit_failures = retry_attempts
                 /\ details[k].status = "success"
                 /\ details[k].entity_updated = FALSE
                 /\ details[k].update_message =
                        Some(UpdateFailed(StrOf(remote[k].edit_last)))
        /\ CountersMatchDetails

C9_Witness ==
    /\ mpc = "done"
    /\ Len(details) = 1
    /\ RenameGaveUp(1)
    /\ remote[1].edit_failures = 3
    /\ details[1].status = "success"
    /\ results.successful = 1
    /\ results.failed = 0

\* the rename condition, read off the plan
RenameWanted(op) ==
    /\ "normalized_name" \in DOMAIN op
    /\ op.normalized_name # <<>>
    /\ op.normalized_name # op.entity_to_change_into

\* C10: an edit call is issued for an operation exactly when its merge
\* succeeded and normalized_name is present, non-empty and different from the
\* survivor's name; it names the survivor, the new name normalized_name and the
\* type entity_type; none is issued for a failed or dry-run operation.
C10_EditIffRenameNeeded ==
    (mpc # "idle") =>
        /\ \A k \in 1..Len(operations) :
              /\ remote[k].edit_calls >= 1 =>
                    /\ MergeSucceeded(k)
                    /\ RenameWanted(operations[k])
                    /\ ~dry_run
                    /\ remote[k].edit_args =
                          {[entity_name |-> operations[k].entity_to_change_into,
                            new_entity_name |-> operations[k].normalized_name,
                            entity_type |-> GetOr(operations[k], "entity_type", "UNKNOWN")]}
              /\ (k <= Len(details) /\ MergeSucceeded(k) /\ RenameWanted(operations[k])) =>
                    remote[k].edit_calls >= 1
        /\ \A k \in 1..Len(details) :
              details[k].status \in {"failed", "dry_run"} => remote[k].edit_calls = 0

C10_Witness ==
    /\ mpc = "done"
    /\ Len(details) = 2
    /\ details[1].status = "success" /\ details[2].status = "success"
    /\ remote[1].edit_calls >= 1
    /\ RenameWanted(operations[1])
    /\ remote[2].edit_calls = 0
    /\ "normalized_name" \in DOMAIN operations[2]
    /\ operations[2].normalized_name = operations[2].entity_to_change_into

\* the merge call of operation k failed, the last time with an HTTP status
\* among the given ones
MergeEndedWith(k, statuses) ==
    /\ remote[k].merge_calls >= 1
    /\ remote[k].merge_last.type = "ClientError"
    /\ remote[k].merge_last.status \in statuses

\* C14: re-running a plan is benign: an operation whose merge call fails with
\* a not-found error (its entities_to_change no longer exist) is not recorded
\* as failed and does not count toward failed.
C14_NotFoundIsBenign ==
    mpc # "idle" =>
        /\ \A k \in 1..Len(details) :
              MergeEndedWith(k, {404}) => details[k].status # "failed"
        /\ results.failed <=
               Cardinality({k \in 1..Len(details) : ~MergeEndedWith(k, {404})})

\* retry_with_backoff is about to issue another merge call although the last
\* one failed with an HTTP status among the given ones
RetriesMergeAfter(statuses) ==
    /\ mpc = "merge"
    /\ attempt > 1
    /\ last_exception.type = "ClientError"
    /\ last_exception.status \in statuses

\* C20: the merge executor shares the retryable/terminal classification: a
\* merge call that fails with a client error (HTTP 4xx) is terminal, it is not
\* retried; only server errors and network errors are retried.
C20_ClientErrorIsTerminal == ~RetriesMergeAfter(400..499)

RECURSIVE Power(_, _)
Power(b, n) == IF n = 0 THEN 1 ELSE b * Power(b, n - 1)

\* the sleeps of a retry_with_backoff whose first n attempts failed and were
\* retried: initial_delay * backoff_factor^k after the k-th, k from 0
Schedule(n) == [j \in 1..n |-> InitialDelay * Power(BackoffFactor, j - 1)]

\* the retries behind failures failed attempts out of at most max_attempts:
\* every failed attempt but the max_attempts-th is followed by a sleep
RetriesAfter(failures, max_attempts) ==
    IF failures < max_attempts THEN failures
    ELSE IF max_attempts >= 1 THEN max_attempts - 1
    ELSE 0

\* the sleeps taken for the k-th operation so far
ExpectedSleeps(k) ==
    IF dry_run THEN <<>>
    ELSE Schedule(RetriesAfter(remote[k].merge_failures, retry_attempts))
            \o Schedule(RetriesAfter(remote[k].edit_failures, retry_attempts))
            \o (IF k <= Len(details) THEN <<InterOperationDelay>> ELSE <<>>)

\* C23: per operation at most retry_attempts merge calls and at most
\* retry_attempts edit calls are issued, a successful call is the last call
\* of its kind, and the sleeps between the attempts are initial_delay *
\* backoff_factor^k after the k-th failed attempt, 1 s then 2 s, with no sleep
\* after the last failed attempt.
C23_BackoffSchedule ==
    mpc \notin {"idle", "crashed"} =>
        \A k \in 1..Len(remote) :
            /\ remote[k].merge_calls <= retry_attempts
            /\ remote[k].edit_calls <= retry_attempts
            /\ remote[k].merge_calls - remote[k].merge_failures \in {0, 1}
            /\ remote[k].edit_calls - remote[k].edit_failures \in {0, 1}
            /\ remote[k].merge_failures < remote[k].merge_calls =>
                    remote[k].merge_last = NoException
            /\ remote[k].edit_failures < remote[k].edit_calls =>
                    remote[k].edit_last = NoException
            /\ sleeps[k] = ExpectedSleeps(k)

\* an operation whose three merge attempts all failed, after sleeps of 1 s
\* and 2 s and none after the third, next to one whose rename succeeded at
\* the second attempt
C23_Witness ==
    /\ retry_attempts = 3
    /\ \E k \in 1..Len(details) :
          /\ remote[k].merge_failures = 3
          /\ sleeps[k] = <<10, 20, InterOperationDelay>>
    /\ \E k \in 1..Len(details) :
          /\ remote[k].merge_calls = 1
          /\ remote[k].edit_calls = 2
          /\ remote[k].edit_last = NoException
          /\ sleeps[k] = <<10, InterOperationDelay>>

\* details holds one entry per processed operation, in plan order
OneEntryPerProcessedOperation ==
    /\ Len(details) <= Len(operations)
    /\ \A k \in 1..Len(details) :
          /\ details[k].entity_to_change_into = operations[k].entity_to_change_into
          /\ details[k].entities_to_change = operations[k].entities_to_change
    /\ mpc \in {"op", "merge", "edit"} => Len(details) = opi - 1

\* the report of a run that has ended
FinalAccounting ==
    mpc = "done" =>
        /\ Len(details) = results.total
        /\ results.total = Len(operations)
        /\ ~dry_run => results.successful + results.failed = results.total
        /\ \A k \in 1..Len(details) : details[k].status \in {"success", "failed", "dry_run"}

\* C25 as stated: at every point of a run successful + failed is the number
\* of details entries with status success or failed, details holds one entry
\* per processed operation in plan order, and at the end len(details) = total
\* = the length of the plan, successful + failed = total in a non-dry-run and
\* every entry has one status of success, failed, dry_run.
C25_ReportAccounting ==
    mpc \notin {"idle", "crashed"} =>
        /\ results.successful + results.failed
               = Cardinality(DetailsWith({"success", "failed"}))
        /\ OneEntryPerProcessedOperation
        /\ FinalAccounting

\* C25 amended: the same, except that while the rename that follows a
\* successful merge is in progress successful already counts the operation,
\* whose details entry is appended when the rename has ended.
C25_ReportAccountingOutsideRename ==
    mpc \notin {"idle", "crashed"} =>
        /\ results.successful + results.failed
               = Cardinality(DetailsWith({"success", "failed"}))
                    + (IF mpc = "edit" THEN 1 ELSE 0)
        /\ results.successful
               = Cardinality(DetailsWith({"success"})) + (IF mpc = "edit" THEN 1 ELSE 0)
        /\ results.failed = Cardinality(DetailsWith({"failed"}))
        /\ OneEntryPerProcessedOperation
        /\ FinalAccounting

\* the rename of the second operation is in progress after a failed first
\* operation: both are counted, one has its entry
C25_Witness ==
    /\ mpc = "edit"
    /\ Len(details) = 1
    /\ details[1].status = "failed"
    /\ results.successful = 1
    /\ results.failed = 1

-----------------------------------------------------------------------------
(* Properties of the entity extraction *)

\* fetch_entities_by_regex has been called with neither pattern non-empty
CalledWithoutPattern ==
    /\ xpc \in {"call", "connected", "returned", "raised"}
    /\ ~Truthy(name_pattern)
    /\ ~Truthy(type_pattern)

\* C15: fetch_entities_by_regex called with neither pattern non-empty (both
\* absent, or empty strings) fails with the invalid-query error, without
\* opening a store connection or running a query.
C15_InvalidQueryRejected ==
    CalledWithoutPattern =>
        /\ conn_log = <<>>
        /\ xpc # "call" => (xpc = "raised" /\ fetched.kind = "ValueError")

-----------------------------------------------------------------------------
(* Properties of the plan file *)

\* the elements the plan file was written from, as JSON values
WrittenElements ==
    IF plan_source.by = "save_merge_operations" THEN PlanJson(plan_source.content).v
    ELSE plan_source.content

\* an element a plan must not hold: entity_to_change_into absent or not a
\* non-empty string, entities_to_change absent or not an array
Offending(element) ==
    \/ ~HasKey(element, K_entity_to_change_into)
    \/ GetKey(element, K_entity_to_change_into).t # "str"
    \/ GetKey(element, K_entity_to_change_into).v = <<>>
    \/ ~HasKey(element, K_entities_to_change)
    \/ GetKey(element, K_entities_to_change).t # "list"

\* no remote call has been made
NoRemoteCall ==
    \A k \in 1..Len(remote) : remote[k].merge_calls = 0 /\ remote[k].edit_calls = 0

\* C16: a plan with an element that lacks entity_to_change_into, whose
\* entity_to_change_into is not a non-empty string, that lacks
\* entities_to_change or whose entities_to_change is not an array is rejected
\* by load_merge_operations with an error naming the index of an offending
\* element, and no remote call is made for any element of the plan.
C16_PlanValidatedBeforeExecution ==
    (/\ plan_source.by # "none"
     /\ loaded.kind # "none"
     /\ \E i \in 1..Len(WrittenElements) : Offending(WrittenElements[i])) =>
        /\ loaded.kind = "ValueError"
        /\ loaded.idx + 1 \in 1..Len(WrittenElements)
        /\ Offending(WrittenElements[loaded.idx + 1])
        /\ mpc = "crashed"
        /\ NoRemoteCall

\* C19: loading the file that save_merge_operations wrote gives the saved
\* list back: the same operations in the same order, each with the same
\* entity_to_change_into, entities_to_change (in order), entity_type,
\* relationship_counts and normalized_name.
C19_PlanRoundTrip ==
    (plan_source.by = "save_merge_operations" /\ loaded.kind # "none") =>
        /\ loaded.kind = "ok"
        /\ loaded.operations = PlanJson(plan_source.content).v
        /\ operations = plan_source.content

\* a saved plan of two operations, one of them with names that need escapes,
\* has been loaded
C19_Witness ==
    /\ plan_source.by = "save_merge_operations"
    /\ loaded.kind = "ok"
    /\ Len(operations) = 2
    /\ operations[1] = QuotedOperation
    /\ "normalized_name" \notin DOMAIN operations[2]

-----------------------------------------------------------------------------
(* Properties of the normalizer *)

\* the separators the names of one entity may differ in
IsNameSeparator(c) == c \in {32, 95, 45}

\* the capital form of a letter of the alphabet of names
UpperOf(c) ==
    IF c >= 97 /\ c <= 122 THEN c - 32
    ELSE IF c \in {SmallSigma, FinalSmallSigma} THEN CapitalSigma
    ELSE c

\* the same character, or the capital and the small form of one letter
DifferOnlyInCase(c, d) == c = d \/ UpperOf(c) = d \/ c = UpperOf(d)

\* what is left of a name without its spaces, underscores and hyphens
RECURSIVE OtherCharacters(_)
OtherCharacters(s) ==
    IF s = <<>> THEN <<>>
    ELSE IF IsNameSeparator(Head(s)) THEN OtherCharacters(Tail(s))
    ELSE <<Head(s)>> \o OtherCharacters(Tail(s))

\* two names that differ only in letter case and in separators
SameUpToCaseAndSeparators(a, b) ==
    LET x == OtherCharacters(a)
        y == OtherCharacters(b)
    IN /\ Len(x) = Len(y)
       /\ \A i \in 1..Len(x) : DifferOnlyInCase(x[i], y[i])

\* C17: normalize_entity_name is idempotent, the key of a key is that key,
\* and two names that differ only in letter case and in their spaces,
\* underscores and hyphens have the same key.
C17_NormalizeIdempotentInsensitive ==
    /\ n_keys.step = 2 => n_keys.again = n_keys.name
    /\ (n_keys.step >= 1 /\ SameUpToCaseAndSeparators(n_name, n_other)) =>
            n_keys.name = n_keys.other

\* the merge calls issued for the k-th operation that no plan should cause:
\* nothing to merge, or the survivor merged into itself
DegenerateCalls(k) ==
    {call \in remote[k].merge_args :
        \/ call.entities_to_change = <<>>
        \/ \E m \in 1..Len(call.entities_to_change) :
              call.entities_to_change[m] = call.entity_to_change_into}

\* C21: whatever plan main loads, the merge primitive is never invoked with an
\* empty entities_to_change or with a list that holds entity_to_change_into.
C21_NoDegenerateCall ==
    loaded.kind = "ok" => \A k \in 1..Len(remote) : DegenerateCalls(k) = {}

\* C22: the key of a name is the lowercased name without its spaces,
\* underscores and hyphens, every other character kept: a tab stays in the
\* key, and two names that differ in a tab have different keys.
C22_RemovesExactlyNameSeparators ==
    n_keys.step >= 1 =>
        /\ n_keys.name = OtherCharacters(Lower(n_name))
        /\ n_keys.other = OtherCharacters(Lower(n_other))

\* C30: with retry_attempts = 0 no remote call is made; every operation of
\* a non-dry-run plan is recorded as failed with the message of the
\* RuntimeError 'Retry failed without exception', and at the end
\* failed = total and successful = 0.
C30_ZeroAttemptsFailEverything ==
    (mpc \notin {"idle", "crashed"} /\ retry_attempts = 0 /\ ~dry_run) =>
        /\ NoRemoteCall
        /\ results.successful = 0
        /\ results.failed = Len(details)
        /\ \A k \in 1..Len(details) :
              /\ details[k].status = "failed"
              /\ details[k].message = Some(Msg("Retry failed without exception", 0))
        /\ mpc = "done" => results.failed = results.total /\ Len(details) = Len(operations)

\* a run of two operations with retry_attempts = 0 has ended
C30_Witness ==
    /\ mpc = "done"
    /\ retry_attempts = 0
    /\ ~dry_run
    /\ Len(operations) = 2
    /\ results.failed = 2
    /\ results.successful = 0

\* the annotations execution adds to the result of an operation
AnnotationFields ==
    {"status", "message", "relationships_transferred", "entity_updated", "update_message"}

\* C28: no step of execute_merge_operations changes the plan: the list and
\* every operation in it stay as they were, in dry-run or not and whatever
\* the remote outcomes; the annotations are in the details of the report and
\* in no operation of the plan.
C28_PlanNotMutated ==
    [][/\ operations' = operations
       /\ \A k \in 1..Len(operations') :
             DOMAIN operations'[k] \cap AnnotationFields = {}
       /\ \A k \in 1..Len(details') :
             AnnotationFields \subseteq DOMAIN details'[k]]_vars

\* a run has ended with a renamed operation and a failed one in its report
C28_Witness ==
    /\ mpc = "done"
    /\ Len(operations) = 2
    /\ Len(details) = 2
    /\ details[1].entity_updated
    /\ details[2].status = "failed"
    /\ "status" \notin DOMAIN operations[1]


-----------------------------------------------------------------------------
(* Properties of the readers *)

\* the attempts to connect made so far, successful or not
ConnectionAttempts ==
    Cardinality({i \in 1..Len(conn_log) : conn_log[i] \in {"connect", "connect_failed"}})

\* the number of times the connection was closed
Closes == Cardinality({i \in 1..Len(conn_log) : conn_log[i] = "close"})

\* the call is over, by a return or by an exception
CallOver == xpc \in {"returned", "raised"}

\* C27: in fetch_entities_by_regex, fetch_cigref_entities and
\* fetch_entities_by_normalized_names a connection that was opened is closed
\* before the function returns or raises, on success and when any statement
\* on the connection fails; a call makes at most one attempt to connect, a
\* failed attempt leaves the function as an exception with nothing done after
\* it; an empty list of normalized names returns an empty list without any
\* attempt to connect
C27_ConnectionLifecycle ==
    /\ ConnectionAttempts <= 1
    /\ CallOver /\ conn_log # <<>> /\ conn_log[1] = "connect"
          => Closes = 1 /\ conn_log[Len(conn_log)] = "close"
    /\ ~CallOver => Closes = 0
    /\ conn_log # <<>> /\ conn_log[1] = "connect_failed"
          => conn_log = <<"connect_failed">> /\ xpc = "raised"
                /\ fetched = [kind |-> "ConnectionError"]
    /\ conn_log # <<>> => conn_log[1] \in {"connect", "connect_failed"}
    /\ reader.fn = "fetch_entities_by_normalized_names"
          /\ reader.normalized_names = {} /\ xpc # "call"
          => conn_log = <<>> /\ xpc = "returned" /\ fetched = [kind |-> "rows", rows |-> <<>>]

\* the query of fetch_entities_by_normalized_names failed after both set-up
\* statements, and the connection was closed
C27_Witness ==
    /\ reader.fn = "fetch_entities_by_normalized_names"
    /\ xpc = "raised"
    /\ fetched = [kind |-> "PostgresError"]
    /\ conn_log = <<"connect", "execute", "execute", "fetch", "close">>


-----------------------------------------------------------------------------
(* Properties of the batching *)

=============================================================================
